---- MODULE Spec2Model ----
(***************************************************************************)
(* A model of avalanche.py, a grammar based generator.                     *)
(*                                                                         *)
(* Grammar(text, limit, **funcs) parses the text into a symbol table,      *)
(* normalizes it, sanity checks it, and generate() then expands `root`     *)
(* with an explicit stack.  The model follows the same passes:             *)
(*   parse (one step per grammar line, imports on a stack of parse states) *)
(*   -> normalize -> sanity_check -> generate (one step per loop turn).    *)
(*                                                                         *)
(* Conventions.                                                            *)
(*  - A symbol name is a record instead of a string, so that the string    *)
(*    tests of the code ("[" in name, split(".", 1)) can be computed:      *)
(*      "@"? pre "." id                       for a named symbol           *)
(*      "@"? pre "." "[" impl " (line L #n)" ("." sub)? "]"  implicit      *)
(*  - The symbol table is a Python dict: a sequence of symbols in          *)
(*    insertion order, keyed by sym.name.                                  *)
(*  - None is FALSE for can_terminate and _choices_terminate (the code     *)
(*    only ever stores None or True there); the weight '+' is Plus.        *)
(*  - A generated value is [ty, s]: its Python type and its characters.    *)
(***************************************************************************)
EXTENDS Integers, Sequences, FiniteSets, TLC

(***************************************************************************)
(* Bounds.                                                                 *)
(***************************************************************************)
MaxStack == 8      \* generation stops being followed past this stack depth
MaxOut == 5        \* ... and past this many appended values
MaxDepth == 2      \* ... and past this many nested generate() calls

Plus == -1         \* the weight '+'
NoLimit == -1      \* limit=None

(***************************************************************************)
(* Names.                                                                  *)
(***************************************************************************)
Named(pre, id) ==
    [ref |-> FALSE, pre |-> pre, impl |-> "", id |-> id, line |-> 0, n |-> -1, sub |-> -1]

Implicit(pre, impl, id, line, n) ==
    [ref |-> FALSE, pre |-> pre, impl |-> impl, id |-> id, line |-> line, n |-> n, sub |-> -1]

NoName == Named("", "")

\* "[" in name
HasBracket(name) == name.impl # ""

\* "." in name, once the hash prefix is rewritten
HasDot(name) == name.pre # "" \/ name.sub >= 0

(***************************************************************************)
(* Values and symbols.                                                     *)
(***************************************************************************)
Str(s) == [ty |-> "str", s |-> s]
Bytes(s) == [ty |-> "bytes", s |-> s]

NoSym ==
    [type |-> "Missing", name |-> NoName, line_no |-> 0, can_terminate |-> FALSE,
     value |-> Str(<<>>), list |-> <<>>, min_ |-> 0, max_ |-> 0, sample_idx |-> -1,
     values |-> <<>>, weights |-> <<>>, total |-> 0, choices_terminate |-> <<>>,
     fname |-> "", args |-> <<>>, ref |-> NoName]

\* _Symbol.__init__: name, line_no, can_terminate = None
NewSym(type, name, line) ==
    [NoSym EXCEPT !.type = type, !.name = name, !.line_no = line]

ListTypes == {"Concat", "Regex", "Repeat", "RepeatSample"}
RepeatTypes == {"Repeat", "RepeatSample"}
TextTypes == {"Text", "TextChoice"}

\* a FuncSymbol argument: a number or a symbol name
NumArg(v) == [num |-> TRUE, v |-> v, name |-> NoName]
SymArg(name) == [num |-> FALSE, v |-> 0, name |-> name]

(***************************************************************************)
(* The symbol table (dict name -> symbol, in insertion order).             *)
(***************************************************************************)
Keys(tab) == {tab[i].name : i \in DOMAIN tab}

Has(tab, name) == \E i \in DOMAIN tab : tab[i].name = name

Get(tab, name) ==
    IF Has(tab, name) THEN tab[CHOOSE i \in DOMAIN tab : tab[i].name = name] ELSE NoSym

\* tab[sym.name] = sym
Put(tab, sym) ==
    IF Has(tab, sym.name)
    THEN [i \in DOMAIN tab |-> IF tab[i].name = sym.name THEN sym ELSE tab[i]]
    ELSE Append(tab, sym)

\* del tab[name]
Del(tab, name) == SelectSeq(tab, LAMBDA s : s.name # name)

SeqToSet(s) == {s[i] : i \in DOMAIN s}

RECURSIVE Flatten(_)
Flatten(ss) == IF ss = <<>> THEN <<>> ELSE Head(ss) \o Flatten(Tail(ss))

RECURSIVE SumSeq(_)
SumSeq(s) == IF s = <<>> THEN 0 ELSE Head(s) + SumSeq(Tail(s))

Reverse(s) == [i \in 1..Len(s) |-> s[Len(s) + 1 - i]]

\* sym.children()
Children(sym) ==
    CASE sym.type \in ListTypes -> SeqToSet(sym.list)
      [] sym.type = "Choice" -> UNION {SeqToSet(sym.values[i]) : i \in DOMAIN sym.values}
      [] sym.type = "Func" -> {sym.args[i].name : i \in {j \in DOMAIN sym.args : ~sym.args[j].num}}
      [] sym.type = "Ref" -> {sym.ref}
      [] OTHER -> {}

(***************************************************************************)
(* Grammar text.  A definition is given as the tokens _Symbol._RE_DEFN     *)
(* splits it into; a function call and a parenthesised group carry the     *)
(* token lists found between their brackets.                               *)
(***************************************************************************)
Tok(t, pre, id, v, args, a, b) ==
    [t |-> t, pre |-> pre, id |-> id, v |-> v, args |-> args, a |-> a, b |-> b]

TText(s) == Tok("quote", "", "", Str(s), <<>>, 0, 0)              \* "s"
TBin(s) == Tok("hexstr", "", "", Bytes(s), <<>>, 0, 0)            \* x".."
TSym(pre, id) == Tok("sym", pre, id, Str(<<>>), <<>>, 0, 0)       \* pre.id
TRef(pre, id) == Tok("ref", pre, id, Str(<<>>), <<>>, 0, 0)       \* @pre.id
TFunc(id, args) == Tok("func", "", id, Str(<<>>), args, 0, 0)     \* id(args)
TGroup(body) == Tok("implconcat", "", "", Str(<<>>), <<body>>, 0, 0) \* ( body )
TMaybe == Tok("maybe", "", "", Str(<<>>), <<>>, 0, 1)             \* ?
TRepeat(a, b) == Tok("repeat", "", "{", Str(<<>>), <<>>, a, b)    \* {a,b}
TSample(a, b) == Tok("repeat", "", "<", Str(<<>>), <<>>, a, b)    \* <a,b>
TRegex(parts) == Tok("regex", "", "", Str(<<>>), <<parts>>, 0, 0) \* / parts /
TSet(chars) == Tok("set", "", "", Str(chars), <<>>, 0, 0)         \* [chars]
TDot == Tok("dot", "", "", Str(<<>>), <<>>, 0, 0)
TNotSet(chars) == Tok("set", "", "", Str(chars), <<>>, 1, 0)      \* [^chars]

\* the lines Grammar._RE_LINE tells apart
LChoice(name, weight, defn) ==
    [type |-> "choice", name |-> name, weight |-> weight, def |-> defn, path |-> ""]
LCont(weight, defn) ==
    [type |-> "cont", name |-> "", weight |-> weight, def |-> defn, path |-> ""]
LConcat(name, defn) ==
    [type |-> "concat", name |-> name, weight |-> 0, def |-> defn, path |-> ""]
LImport(name, path) ==
    [type |-> "import", name |-> name, weight |-> 0, def |-> <<>>, path |-> path]

\* int(arg0) of the identifiers that lex as integers
NumVal == ("1" :> 1) @@ ("2" :> 2)

(***************************************************************************)
(* _ParseState and _Symbol.__init__.  A parse state ps carries what a      *)
(* definition's parse changes: the grammar's symtab and tracked set, and   *)
(* pstate.n_implicit and pstate.imports_used; ctx is the rest of pstate    *)
(* (prefix, line_no, imports) and the hash seed of the process.  An        *)
(* exception is ps.err: nothing runs                                       *)
(* after it.                                                               *)
(***************************************************************************)
Raise(ps, e) == IF ps.err = "" THEN [ps EXCEPT !.err = e] ELSE ps

\* pstate.implicit()
implicit(ps) == [ps EXCEPT !.n_implicit = @ + 1]

\* _Symbol.__init__ with no_add False; name.split(".", 1)[1] needs a "."
SymbolInit(ps, ctx, sym) ==
    IF ps.err # "" THEN ps
    ELSE IF sym.name = Named(ctx.prefix, "import") THEN Raise(ps, "ParseError")
    ELSE IF ~HasDot(sym.name) THEN Raise(ps, "IndexError")
    ELSE IF sym.name.impl = "" /\ sym.name.id \in DOMAIN ctx.imports
         THEN Raise(ps, "ParseError")
    ELSE IF Has(ps.symtab, sym.name)
            /\ Get(ps.symtab, sym.name).type \notin {"Abstract", "Ref"}
         THEN Raise(ps, "ParseError")
    ELSE [ps EXCEPT !.symtab = Put(@, sym)]

\* _ParseState.get_prefixed: the name, or NoName after a ParseError
get_prefixed(ps, ctx, symprefix, id) ==
    IF symprefix = "" THEN [ps |-> ps, name |-> Named(ctx.prefix, id)]
    ELSE IF symprefix \in DOMAIN ctx.imports
         THEN [ps |-> [ps EXCEPT !.imports_used = @ \cup {symprefix}],
               name |-> Named(ctx.imports[symprefix].hash, id)]
         ELSE [ps |-> Raise(ps, "ParseError"), name |-> NoName]

\* TextSymbol.parse / TextSymbol.__init__(None, value, pstate)
TextSymbol_parse(ps, ctx, tok) ==
    LET p1 == implicit(ps)
        name == Implicit(ctx.prefix, "text", "", ctx.line_no, p1.n_implicit)
        sym == [NewSym("Text", name, ctx.line_no) EXCEPT
                    !.value = tok.v, !.can_terminate = TRUE]
    IN [ps |-> SymbolInit(p1, ctx, sym), name |-> name]

\* BinSymbol.parse / BinSymbol.__init__
BinSymbol_parse(ps, ctx, tok) ==
    LET p1 == implicit(ps)
        name == Implicit(ctx.prefix, "bin", "", ctx.line_no, p1.n_implicit)
        sym == [NewSym("Bin", name, ctx.line_no) EXCEPT
                    !.value = tok.v, !.can_terminate = TRUE]
    IN [ps |-> SymbolInit(p1, ctx, sym), name |-> name]

\* grmr.tracked.add(ref)
Track(ps, ref) == IF ps.err = "" THEN [ps EXCEPT !.tracked = @ \cup {ref}] ELSE ps

\* if ref not in grmr.symtab: grmr.symtab[ref] = _AbstractSymbol(ref, pstate)
Declare(ps, ctx, ref) ==
    IF ps.err = "" /\ ~Has(ps.symtab, ref)
    THEN SymbolInit(ps, ctx, NewSym("Abstract", ref, ctx.line_no))
    ELSE ps

\* RefSymbol.__init__, after get_prefixed gave ref
RefSymbol_add(g, ctx) ==
    [ps |-> Track(Declare(SymbolInit(g.ps, ctx,
                              [NewSym("Ref", [g.name EXCEPT !.ref = TRUE], ctx.line_no)
                                  EXCEPT !.ref = g.name]),
                          ctx, g.name), g.name),
     name |-> [g.name EXCEPT !.ref = TRUE]]

\* RefSymbol.__init__
RefSymbol_init(ps, ctx, tok) ==
    RefSymbol_add(get_prefixed(ps, ctx, tok.pre, tok.id), ctx)

\* the "sym" branch of _Symbol._parse
SymRef_add(g, ctx) == [ps |-> Declare(g.ps, ctx, g.name), name |-> g.name]

SymRef_parse(ps, ctx, tok) ==
    SymRef_add(get_prefixed(ps, ctx, tok.pre, tok.id), ctx)

\* the "maybe"/"repeat" branch of _Symbol._parse: wraps parts, the last result
Repeat_wrap(p2, sym, parts) ==
    IF p2.err # "" THEN p2
    ELSE IF Get(p2.symtab, parts).name.impl = "concat"
         THEN [p2 EXCEPT !.symtab =
                  Del(Put(@, [sym EXCEPT !.list = Get(p2.symtab, parts).list]), parts)]
         ELSE [p2 EXCEPT !.symtab = Put(@, [sym EXCEPT !.list = <<parts>>])]

Repeat_init(ps, ctx, sym, parts) ==
    [ps |-> Repeat_wrap(SymbolInit(ps, ctx, sym), sym, parts), name |-> sym.name]

Repeat_parse(ps, ctx, tok, parts) ==
    Repeat_init(implicit(ps), ctx,
                [NewSym(IF tok.t = "repeat" /\ tok.id = "<" THEN "RepeatSample" ELSE "Repeat",
                        Implicit(ctx.prefix, "repeat", "", ctx.line_no, ps.n_implicit + 1),
                        ctx.line_no)
                    EXCEPT !.min_ = tok.a, !.max_ = tok.b],
                parts)

\* RegexSymbol._REGEX_ALPHABET, cut down to three characters
REGEX_ALPHABET == <<"a", "b", "c">>

\* list(s) for a set s of characters: the order is the one of the hashes,
\* which the seed of the process decides
SetOrderOf(seed, chars) ==
    IF seed = 0 THEN SelectSeq(REGEX_ALPHABET, LAMBDA c : c \in chars)
    ELSE Reverse(SelectSeq(REGEX_ALPHABET, LAMBDA c : c \in chars))

\* alpha = set(alpha); if inverse: alpha = set(_REGEX_ALPHABET) - alpha;
\* "".join(alpha)
RegexSymbol_alpha(tok, ctx) ==
    SetOrderOf(ctx.seed, IF tok.a = 1 THEN SeqToSet(REGEX_ALPHABET) \ SeqToSet(tok.v.s)
                         ELSE SeqToSet(tok.v.s))

\* the name "[regex alpha]" of the symbol that every "." refers to
RegexAlpha == Implicit("", "regex alpha", "", 0, -1)

\* the loop of RegexSymbol.parse over the parts of the expression, k being
\* n_implicit[0]: new_text, new_textchoice, add_repeat
RECURSIVE RegexParts(_, _, _, _, _)
RegexParts(parts, ps, ctx, rsym, k) ==
    IF parts = <<>> \/ ps.err # "" THEN [ps |-> ps, sym |-> rsym]
    ELSE LET tok == Head(parts)
             name == [rsym.name EXCEPT !.sub = k]
             added == [rsym EXCEPT !.list = Append(@, name)]
         IN CASE tok.t = "quote" ->
                   RegexParts(Tail(parts),
                              SymbolInit(ps, ctx, [NewSym("Text", name, ctx.line_no) EXCEPT
                                                      !.value = tok.v, !.can_terminate = TRUE]),
                              ctx, added, k + 1)
              [] tok.t = "set" ->
                   RegexParts(Tail(parts),
                              SymbolInit(ps, ctx, [NewSym("TextChoice", name, ctx.line_no) EXCEPT
                                                      !.value = Str(RegexSymbol_alpha(tok, ctx)),
                                                      !.can_terminate = TRUE]),
                              ctx, added, k + 1)
              [] tok.t = "dot" ->
                   RegexParts(Tail(parts),
                              IF Has(ps.symtab, RegexAlpha) THEN ps
                              ELSE SymbolInit(ps, ctx, [NewSym("TextChoice", RegexAlpha, 0) EXCEPT
                                                           !.value = Str(REGEX_ALPHABET),
                                                           !.can_terminate = TRUE]),
                              ctx, [rsym EXCEPT !.list = Append(@, RegexAlpha)], k)
              [] OTHER -> \* repeat
                   IF rsym.list = <<>>
                      \/ Get(ps.symtab, rsym.list[Len(rsym.list)]).type \in RepeatTypes
                   THEN [ps |-> Raise(ps, "ParseError"), sym |-> rsym]
                   ELSE RegexParts(Tail(parts),
                                   SymbolInit(ps, ctx,
                                              [NewSym("Repeat", name, ctx.line_no) EXCEPT
                                                  !.min_ = tok.a, !.max_ = tok.b,
                                                  !.list = <<rsym.list[Len(rsym.list)]>>]),
                                   ctx,
                                   [rsym EXCEPT !.list =
                                       Append(SubSeq(@, 1, Len(@) - 1), name)],
                                   k + 1)

\* RegexSymbol.parse: the symbol is in the table with the parts it got
RegexSymbol_done(r, name) ==
    [ps |-> IF r.ps.err = "" THEN [r.ps EXCEPT !.symtab = Put(@, r.sym)] ELSE r.ps,
     name |-> name]

\* RegexSymbol.__init__, then the parts
RegexSymbol_init(ps, ctx, tok, sym) ==
    RegexSymbol_done(RegexParts(tok.args[1], SymbolInit(ps, ctx, sym), ctx, sym, 0), sym.name)

RegexSymbol_parse(ps, ctx, tok) ==
    RegexSymbol_init(implicit(ps), ctx, tok,
                     [NewSym("Regex",
                             Implicit(ctx.prefix, "regex", "", ctx.line_no, ps.n_implicit + 1),
                             ctx.line_no)
                         EXCEPT !.can_terminate = TRUE])

RECURSIVE ParseDefn(_, _, _, _)
RECURSIVE Then(_, _, _, _)
RECURSIVE ThenWrap(_, _, _, _)
RECURSIVE FuncArgs(_, _, _, _)
RECURSIVE FuncArg(_, _, _, _)

\* FuncSymbol.parse: FuncSymbol.__init__, then the arguments
FuncSymbol_done(r, name) ==
    [ps |-> IF r.ps.err = "" THEN [r.ps EXCEPT !.symtab = Put(@, r.sym)] ELSE r.ps,
     name |-> name]

FuncSymbol_init(ps, ctx, tok, sym) ==
    FuncSymbol_done(FuncArgs(tok.args, SymbolInit(ps, ctx, sym), ctx, sym), sym.name)

FuncSymbol_parse(ps, ctx, tok) ==
    IF tok.id = "import" THEN [ps |-> Raise(ps, "ParseError"), name |-> NoName]
    ELSE FuncSymbol_init(implicit(ps), ctx, tok,
                         [NewSym("Func",
                                 Implicit(ctx.prefix, "func", tok.id, ctx.line_no,
                                          ps.n_implicit + 1),
                                 ctx.line_no)
                             EXCEPT !.fname = tok.id])

\* the argument loop of FuncSymbol.parse
FuncArgs(args, ps, ctx, fsym) ==
    IF args = <<>> \/ ps.err # "" THEN [ps |-> ps, sym |-> fsym]
    ELSE FuncArg(args, ParseDefn(Head(args), ps, ctx, <<>>), ctx, fsym)

\* one turn of the argument loop, r being what _parse gave for the argument
FuncArg(args, r, ctx, fsym) ==
    LET arg == r.result
        done == Len(args) = 1
        numeric == /\ Len(arg) = 1
                   /\ Get(r.ps.symtab, arg[1]).type = "Abstract"
                   /\ arg[1].id \in DOMAIN NumVal
        cname == [fsym.name EXCEPT !.sub = Len(fsym.args)]
        csym == [NewSym("Concat", cname, ctx.line_no) EXCEPT !.list = arg]
    IN IF r.ps.err # "" THEN [ps |-> r.ps, sym |-> fsym]
       ELSE IF arg = <<>> /\ done THEN [ps |-> r.ps, sym |-> fsym]
       ELSE IF numeric
            THEN FuncArgs(Tail(args),
                          [r.ps EXCEPT !.symtab = Del(@, arg[1])], ctx,
                          [fsym EXCEPT !.args = Append(@, NumArg(NumVal[arg[1].id]))])
            ELSE FuncArgs(Tail(args), SymbolInit(r.ps, ctx, csym), ctx,
                          [fsym EXCEPT !.args = Append(@, SymArg(cname))])

\* result.append(sym.name), and on to the rest of the definition
Then(rest, r, ctx, result) == ParseDefn(rest, r.ps, ctx, Append(result, r.name))

\* the symbol replaces the last part instead
ThenWrap(rest, r, ctx, result) ==
    ParseDefn(rest, r.ps, ctx, Append(SubSeq(result, 1, Len(result) - 1), r.name))

\* ConcatSymbol(None, pstate) for a group whose parts _parse returned as r
Group_init(r, ctx, name) ==
    [ps |-> SymbolInit(implicit(r.ps), ctx,
                       [NewSym("Concat", name, ctx.line_no) EXCEPT !.list = r.result]),
     name |-> name]

Group_parse(r, ctx) ==
    Group_init(r, ctx, Implicit(ctx.prefix, "concat", "", ctx.line_no, r.ps.n_implicit + 1))

\* _Symbol._parse: the names of the children a definition lists
ParseDefn(defn, ps, ctx, result) ==
    IF defn = <<>> \/ ps.err # "" THEN [ps |-> ps, result |-> result]
    ELSE LET tok == Head(defn)
             rest == Tail(defn)
         IN CASE tok.t = "quote" -> Then(rest, TextSymbol_parse(ps, ctx, tok), ctx, result)
              [] tok.t = "hexstr" -> Then(rest, BinSymbol_parse(ps, ctx, tok), ctx, result)
              [] tok.t = "regex" -> Then(rest, RegexSymbol_parse(ps, ctx, tok), ctx, result)
              [] tok.t = "func" -> Then(rest, FuncSymbol_parse(ps, ctx, tok), ctx, result)
              [] tok.t = "ref" -> Then(rest, RefSymbol_init(ps, ctx, tok), ctx, result)
              [] tok.t = "sym" -> Then(rest, SymRef_parse(ps, ctx, tok), ctx, result)
              [] tok.t = "implconcat" ->
                   Then(rest, Group_parse(ParseDefn(tok.args[1], ps, ctx, <<>>), ctx),
                        ctx, result)
              [] OTHER -> \* maybe, repeat
                   IF result = <<>>
                   THEN [ps |-> Raise(ps, "ParseError"), result |-> result]
                   ELSE ThenWrap(rest, Repeat_parse(ps, ctx, tok, result[Len(result)]),
                                 ctx, result)

(***************************************************************************)
(* The grammars the model is run on.  Each is a list of files, the first   *)
(* being the text given to Grammar(); funcs are the keyword arguments.     *)
(***************************************************************************)
File(path, lines) == [path |-> path, lines |-> lines]
\* given is "str" for a grammar passed as text and "file" for one passed as
\* a file opened in text mode, files[1] being that file
Input(files, funcs) == [files |-> files, funcs |-> funcs, given |-> "str"]

\* root  1 "a"
\*       1 "b" root
GChoice == Input(<<File("", <<
    LChoice("root", 1, <<TText(<<"a">>)>>),
    LCont(1, <<TText(<<"b">>), TSym("", "root")>>) >>)>>, {})

\* root  0 "a"
\*       1 "x" root
GZeroWeight == Input(<<File("", <<
    LChoice("root", 0, <<TText(<<"a">>)>>),
    LCont(1, <<TText(<<"x">>), TSym("", "root")>>) >>)>>, {})

\* root  "a" root
GConcatLoop == Input(<<File("", <<
    LConcat("root", <<TText(<<"a">>), TSym("", "root")>>) >>)>>, {})

\* root  A
\* A     A
GSelfLoop == Input(<<File("", <<
    LConcat("root", <<TSym("", "A")>>),
    LConcat("A", <<TSym("", "A")>>) >>)>>, {})

\* root  A @A
\* A     1 "a"
\*       1 "b" "c"
GRef == Input(<<File("", <<
    LConcat("root", <<TSym("", "A"), TRef("", "A")>>),
    LChoice("A", 1, <<TText(<<"a">>)>>),
    LCont(1, <<TText(<<"b">>), TText(<<"c">>)>>) >>)>>, {})

\* root  @A @A
\* A     1 "a"
\*       1 "b"
GRefOnly == Input(<<File("", <<
    LConcat("root", <<TRef("", "A"), TRef("", "A")>>),
    LChoice("A", 1, <<TText(<<"a">>)>>),
    LCont(1, <<TText(<<"b">>)>>) >>)>>, {})

\* root  A A
\* A     1 "a"
\*       1 x"41"
GMixed == Input(<<File("", <<
    LConcat("root", <<TSym("", "A"), TSym("", "A")>>),
    LChoice("A", 1, <<TText(<<"a">>)>>),
    LCont(1, <<TBin(<<"A">>)>>) >>)>>, {})

\* root  "x"{2} "y"{0,2}
GRepeat == Input(<<File("", <<
    LConcat("root", <<TText(<<"x">>), TRepeat(2, 2), TText(<<"y">>), TRepeat(0, 2)>>) >>)>>, {})

\* root  ("a" root){1,2}
GRepeatLoop == Input(<<File("", <<
    LConcat("root", <<TGroup(<<TText(<<"a">>), TSym("", "root")>>), TRepeat(1, 2)>>) >>)>>, {})

\* root  ("<" A ">")<1,2>
\* A     1 "a"
\*       1 "b"
\*       0 "c"
GSample == Input(<<File("", <<
    LConcat("root", <<TGroup(<<TText(<<"<">>), TSym("", "A"), TText(<<">">>)>>),
                      TSample(1, 2)>>),
    LChoice("A", 1, <<TText(<<"a">>)>>),
    LCont(1, <<TText(<<"b">>)>>),
    LCont(0, <<TText(<<"c">>)>>) >>)>>, {})

\* L     import("lib")          lib:  X     1 X 1
\* root  L.good                             1 "t"
\*                                    F     f(1)
\*                                    good  "k"
GImport == Input(<<
    File("", <<
        LImport("L", "lib"),
        LConcat("root", <<TSym("L", "good")>>) >>),
    File("lib", <<
        LChoice("X", 1, <<TSym("", "X"), TSym("", "1")>>),
        LCont(1, <<TText(<<"t">>)>>),
        LConcat("F", <<TFunc("f", <<<<TSym("", "1")>>>>)>>),
        LConcat("good", <<TText(<<"k">>)>>) >>) >>, {"f"})

\* root  "a"
\* B     "x"
GUnused == Input(<<File("", <<
    LConcat("root", <<TText(<<"a">>)>>),
    LConcat("B", <<TText(<<"x">>)>>) >>)>>, {})

\* A     "x"
GNoRoot == Input(<<File("", <<
    LConcat("A", <<TText(<<"x">>)>>) >>)>>, {})

\* root  1 "x"
\*       + B
\* B     + C
\*       2 "y"
\* C     3 "z"
GPlus == Input(<<File("", <<
    LChoice("root", 1, <<TText(<<"x">>)>>),
    LCont(Plus, <<TSym("", "B")>>),
    LChoice("B", Plus, <<TSym("", "C")>>),
    LCont(2, <<TText(<<"y">>)>>),
    LChoice("C", 3, <<TText(<<"z">>)>>) >>)>>, {})

\* root  F "w"
\* F     f(A, 2)
\* A     1 "a"
\*       1 "b"
GFunc == Input(<<File("", <<
    LConcat("root", <<TSym("", "F"), TText(<<"w">>)>>),
    LConcat("F", <<TFunc("f", << <<TSym("", "A")>>, <<TSym("", "2")>> >>)>>),
    LChoice("A", 1, <<TText(<<"a">>)>>),
    LCont(1, <<TText(<<"b">>)>>) >>)>>, {"f"})

\* root  T U
\* T     3 "z"
\* U     + T
\*       1 "u"
GPlusAfter == Input(<<File("", <<
    LConcat("root", <<TSym("", "T"), TSym("", "U")>>),
    LChoice("T", 3, <<TText(<<"z">>)>>),
    LChoice("U", Plus, <<TSym("", "T")>>),
    LCont(1, <<TText(<<"u">>)>>) >>)>>, {})

\* root  F 1
\* F     f(1)
\* B     "x"
GDangling == Input(<<File("", <<
    LConcat("root", <<TSym("", "F"), TSym("", "1")>>),
    LConcat("F", <<TFunc("f", <<<<TSym("", "1")>>>>)>>),
    LConcat("B", <<TText(<<"x">>)>>) >>)>>, {"f"})

\* root  g("a")                 no callable registered
GNoFunc == Input(<<File("", <<
    LConcat("root", <<TFunc("g", <<<<TText(<<"a">>)>>>>)>>) >>)>>, {})

\* root  "a"                    g registered
GExtraFunc == Input(<<File("", <<
    LConcat("root", <<TText(<<"a">>)>>) >>)>>, {"g"})

\* L     import("lib")          lib:  good  "k"
\* root  "a"
GUnusedImport == Input(<<
    File("", <<
        LImport("L", "lib"),
        LConcat("root", <<TText(<<"a">>)>>) >>),
    File("lib", <<
        LConcat("good", <<TText(<<"k">>)>>) >>) >>, {})

\* root  L.good                lib:  good  "k"
\* L     import("lib")
GLateImport == Input(<<
    File("", <<
        LConcat("root", <<TSym("L", "good")>>),
        LImport("L", "lib") >>),
    File("lib", <<
        LConcat("good", <<TText(<<"k">>)>>) >>) >>, {})

\* root  A<3>
\* A     1 "a"
\*       1 "b"
\*       0 "c"
GSampleMany == Input(<<File("", <<
    LConcat("root", <<TSym("", "A"), TSample(3, 3)>>),
    LChoice("A", 1, <<TText(<<"a">>)>>),
    LCont(1, <<TText(<<"b">>)>>),
    LCont(0, <<TText(<<"c">>)>>) >>)>>, {})

\* root  + root
\*       1 "a"
GPlusCycle == Input(<<File("", <<
    LChoice("root", Plus, <<TSym("", "root")>>),
    LCont(1, <<TText(<<"a">>)>>) >>)>>, {})

\* root  /[ab]x?/
GRegex == Input(<<File("", <<
    LConcat("root", <<TRegex(<<TSet(<<"a", "b">>), TText(<<"x">>), TMaybe>>)>>) >>)>>, {})

\* root  ("a" "b") C "e"
\* C     "c" "d"
GNested == Input(<<File("", <<
    LConcat("root", <<TGroup(<<TText(<<"a">>), TText(<<"b">>)>>), TSym("", "C"),
                      TText(<<"e">>)>>),
    LConcat("C", <<TText(<<"c">>), TText(<<"d">>)>>) >>)>>, {})

\* root  F
\* F     f(A)
\* A     "a" x"41"
GFuncMixed == Input(<<File("", <<
    LConcat("root", <<TSym("", "F")>>),
    LConcat("F", <<TFunc("f", << <<TSym("", "A")>> >>)>>),
    LConcat("A", <<TText(<<"a">>), TBin(<<"A">>)>>) >>)>>, {"f"})

\* root  /./ A
\* A     /.x/
GDot == Input(<<File("", <<
    LConcat("root", <<TRegex(<<TDot>>), TSym("", "A")>>),
    LConcat("A", <<TRegex(<<TDot, TText(<<"x">>)>>)>>) >>)>>, {})

\* root  A @A @B
\* A     1 "a"
\*       1 B A
\* B     "b"
GTrackNested == Input(<<File("", <<
    LConcat("root", <<TSym("", "A"), TRef("", "A"), TRef("", "B")>>),
    LChoice("A", 1, <<TText(<<"a">>)>>),
    LCont(1, <<TSym("", "B"), TSym("", "A")>>),
    LConcat("B", <<TText(<<"b">>)>>) >>)>>, {})

\* root  "ww" F @A
\* F     f(A)
\* A     1 "a"
\*       1 "b"
GFuncAfter == Input(<<File("", <<
    LConcat("root", <<TText(<<"w", "w">>), TSym("", "F"), TRef("", "A")>>),
    LConcat("F", <<TFunc("f", << <<TSym("", "A")>> >>)>>),
    LChoice("A", 1, <<TText(<<"a">>)>>),
    LCont(1, <<TText(<<"b">>)>>) >>)>>, {"f"})

\* main, opened:  S     import("main")
\*                root  S.y
\*                y     "my"
GSelfImport == [Input(<<
    File("main", <<
        LImport("S", "main"),
        LConcat("root", <<TSym("S", "y")>>),
        LConcat("y", <<TText(<<"m", "y">>)>>) >>) >>, {}) EXCEPT !.given = "file"]

\* main, opened:  L     import("lib")      lib:  M  import("main")
\*                root  L.x "m"                  x  "lx" M.y
\*                y     "my"
GCycle == [Input(<<
    File("main", <<
        LImport("L", "lib"),
        LConcat("root", <<TSym("L", "x"), TText(<<"m">>)>>),
        LConcat("y", <<TText(<<"m", "y">>)>>) >>),
    File("lib", <<
        LImport("M", "main"),
        LConcat("x", <<TText(<<"l", "x">>), TSym("M", "y")>>) >>) >>, {}) EXCEPT !.given = "file"]

\* the text of main, with main on disk
GSelfImportText == Input(<<
    File("", <<
        LImport("S", "main"),
        LConcat("root", <<TSym("S", "y")>>),
        LConcat("y", <<TText(<<"m", "y">>)>>) >>),
    File("main", <<
        LImport("S", "main"),
        LConcat("root", <<TSym("S", "y")>>),
        LConcat("y", <<TText(<<"m", "y">>)>>) >>) >>, {})

\* L     import("lib")          lib:  x  "lx"
\* M     import("lib")
\* root  L.x M.x
GTwoNames == Input(<<
    File("", <<
        LImport("L", "lib"),
        LImport("M", "lib"),
        LConcat("root", <<TSym("L", "x"), TSym("M", "x")>>) >>),
    File("lib", <<
        LConcat("x", <<TText(<<"l", "x">>)>>) >>) >>, {})

Inputs == <<GChoice, GZeroWeight, GConcatLoop, GSelfLoop, GRef, GRefOnly, GMixed,
            GRepeat, GRepeatLoop, GSample, GImport, GUnused, GNoRoot, GPlus, GFunc,
            GPlusAfter, GDangling, GNoFunc, GExtraFunc, GUnusedImport, GLateImport,
            GSampleMany, GPlusCycle, GRegex, GNested,
            GFuncMixed, GDot, GTrackNested, GFuncAfter, GSelfImport, GCycle,
            GSelfImportText, GTwoNames>>

\* the hash seeds a process can start with (PYTHONHASHSEED, random by default)
HashSeeds == {0, 1}

\* the values given for limit
Limits == {NoLimit, 0, 2}

\* hashlib.sha512(text).hexdigest()[:6]: equal for equal texts only
HashNames == <<"h1", "h2", "h3">>
GrammarHash(files, f) ==
    HashNames[CHOOSE j \in 1..f : /\ files[j].lines = files[f].lines
                                  /\ \A k \in 1..(j - 1) : files[k].lines # files[f].lines]

\* the hash parse() computes for the grammar given to Grammar(): of a file
\* opened in text mode __init__ has read one character and not gone back,
\* so the hash is the one of the text without its first character, "h0",
\* which no whole text here has
TopHash(inp) == IF inp.given = "file" THEN "h0" ELSE GrammarHash(inp.files, 1)

(***************************************************************************)
(* State.                                                                  *)
(***************************************************************************)
VARIABLES
    gid,        \* the grammar given to Grammar()
    limit,      \* self._limit
    funcs,      \* the names of self.funcs
    hashseed,   \* the hash seed of the process, which orders its sets
    phase,      \* where Grammar() / generate() is
    err,        \* the exception raised, "" for none
    symtab,     \* self.symtab
    tracked,    \* self.tracked
    imports,    \* imports of __init__: hash -> friendly prefix
    pstack,     \* the parse() calls in progress, innermost last
    gstack,     \* the generate() calls in progress, innermost last
    instances,  \* gstate.instances, shared by nested calls
    result,     \* the value generate() returned
    last,       \* what the last step of generate() did
    captured    \* per tracked symbol, the outputs of its completed expansions

vars == <<gid, limit, funcs, hashseed, phase, err, symtab, tracked, imports, pstack, gstack,
          instances, result, last, captured>>

cvars == <<gid, limit, funcs, hashseed>>
gvars == <<gstack, instances, result, last, captured>>

NoLast ==
    [op |-> "", sym |-> NoName, tgt |-> NoName, via_ref |-> FALSE, exceeded |-> FALSE,
     pushed |-> <<>>,
     n |-> 0, alts |-> <<>>, val |-> Str(<<>>), tried |-> FALSE, appended |-> FALSE]

\* _ParseState.__init__ for one file
ParseFrame(file, hash) ==
    [file |-> file, prefix |-> hash, imports |-> <<>>, imports_used |-> {},
     line_no |-> 0, sym |-> NoName]

Files == Inputs[gid].files

Init ==
    /\ gid \in DOMAIN Inputs
    /\ limit \in Limits
    /\ funcs = Inputs[gid].funcs \cup {"rndint", "rndpow2", "rndflt"}
    /\ hashseed \in HashSeeds
    /\ phase = "parse"
    /\ err = ""
    /\ symtab = <<>>
    /\ tracked = {}
    /\ imports = (TopHash(Inputs[gid]) :> "")
    /\ pstack = <<ParseFrame(1, TopHash(Inputs[gid]))>>
    /\ gstack = <<>>
    /\ instances = <<>>
    /\ result = Str(<<>>)
    /\ last = NoLast
    /\ captured = <<>>

Fail(e) ==
    /\ phase' = "failed"
    /\ err' = e

(***************************************************************************)
(* Grammar.parse, one line per step.                                       *)
(***************************************************************************)
Top == pstack[Len(pstack)]
Line == Files[Top.file].lines[Top.line_no + 1]

SetTop(frame) == [pstack EXCEPT ![Len(pstack)] = frame]

\* what a definition's parse starts from, and pstate for it
PS0 == [symtab |-> symtab, tracked |-> tracked, n_implicit |-> -1,
        imports_used |-> Top.imports_used, err |-> ""]
Ctx == [prefix |-> Top.prefix, line_no |-> Top.line_no + 1, imports |-> Top.imports,
        seed |-> hashseed]

\* ChoiceSymbol.append
Choice_append(sym, value, weight) ==
    [sym EXCEPT !.total = IF weight # Plus THEN @ + weight ELSE @,
                !.values = Append(@, value),
                !.weights = Append(@, weight),
                !.choices_terminate = Append(@, FALSE)]

\* grmr.symtab gets the line's symbol, r being what its definition parsed to
ChoiceLine(r, sym, weight) ==
    [ps |-> IF r.ps.err = ""
            THEN [r.ps EXCEPT !.symtab = Put(@, Choice_append(sym, r.result, weight))]
            ELSE r.ps,
     sym |-> sym.name]

ContLine(r, name, weight) ==
    [ps |-> IF r.ps.err = ""
            THEN [r.ps EXCEPT !.symtab =
                     Put(@, Choice_append(Get(r.ps.symtab, name), r.result, weight))]
            ELSE r.ps,
     sym |-> name]

ConcatLine(r, sym) ==
    [ps |-> IF r.ps.err = ""
            THEN [r.ps EXCEPT !.symtab = Put(@, [sym EXCEPT !.list = r.result])]
            ELSE r.ps,
     sym |-> sym.name]

\* ChoiceSymbol(name, pstate) / ConcatSymbol(name, pstate), then the parse
NewLine(type) == NewSym(type, Named(Top.prefix, Line.name), Top.line_no + 1)

\* the branches of the loop body of Grammar.parse for a definition line:
\* the parse state after the line and the symbol `sym` is left bound to
ParseLineResult ==
    CASE Line.type = "choice" ->
           ChoiceLine(ParseDefn(Line.def, SymbolInit(PS0, Ctx, NewLine("Choice")), Ctx, <<>>),
                      NewLine("Choice"), Line.weight)
      [] Line.type = "concat" ->
           ConcatLine(ParseDefn(Line.def, SymbolInit(PS0, Ctx, NewLine("Concat")), Ctx, <<>>),
                      NewLine("Concat"))
      [] OTHER -> \* continuation of choice
           IF Get(symtab, Top.sym).type # "Choice"
           THEN [ps |-> Raise(PS0, "ParseError"), sym |-> Top.sym]
           ELSE ContLine(ParseDefn(Line.def, PS0, Ctx, <<>>), Top.sym, Line.weight)

\* the line has been parsed to r
Parsed(r) ==
    IF r.ps.err # ""
    THEN Fail(r.ps.err) /\ UNCHANGED <<symtab, tracked, pstack>>
    ELSE /\ symtab' = r.ps.symtab
         /\ tracked' = r.ps.tracked
         /\ pstack' = SetTop([Top EXCEPT !.line_no = @ + 1, !.sym = r.sym,
                                         !.imports_used = r.ps.imports_used])
         /\ UNCHANGED <<phase, err>>

ParseLine ==
    /\ phase = "parse"
    /\ Top.line_no < Len(Files[Top.file].lines)
    /\ Line.type # "import"
    /\ Parsed(ParseLineResult)
    /\ UNCHANGED <<cvars, imports, gvars>>

\* pstate.add_import
add_import(frame, name, hash) ==
    [frame EXCEPT !.imports = (name :> [hash |-> hash, line |-> frame.line_no]) @@ @]

\* the import branch: open the file and call parse() on it
ParseImport ==
    /\ phase = "parse"
    /\ Top.line_no < Len(Files[Top.file].lines)
    /\ Line.type = "import"
    /\ LET frame == [Top EXCEPT !.line_no = @ + 1, !.sym = NoName]
           found == {f \in DOMAIN Files : Files[f].path = Line.path}
       IN IF Has(symtab, Named(Top.prefix, Line.name))
          THEN Fail("ParseError") /\ UNCHANGED <<pstack, imports>>
          ELSE IF found = {}
          THEN Fail("IntegrityError") /\ UNCHANGED <<pstack, imports>>
          ELSE LET f == CHOOSE f \in found : TRUE
                   hash == GrammarHash(Files, f)
               IN IF hash \in DOMAIN imports
                  THEN /\ pstack' = SetTop(add_import(frame, Line.name, hash))
                       /\ UNCHANGED <<imports, phase, err>>
                  ELSE /\ imports' = (hash :> Line.name) @@ imports
                       /\ pstack' = Append(SetTop(frame), ParseFrame(f, hash))
                       /\ UNCHANGED <<phase, err>>
    /\ UNCHANGED <<cvars, symtab, tracked, gvars>>

\* a check that finds no import unused
Unused_none(frame) == {}

\* _ParseState.sanity_check: unused = set(self.imports) - self.imports_used
Unused(frame) == DOMAIN frame.imports \ frame.imports_used

\* the end of parse(): pstate.sanity_check(), return grammar_hash
ParseReturn ==
    /\ phase = "parse"
    /\ Top.line_no = Len(Files[Top.file].lines)
    /\ IF Unused(Top) # {}
       THEN Fail("IntegrityError") /\ UNCHANGED pstack
       ELSE IF Len(pstack) = 1
       THEN /\ phase' = "normalize"
            /\ pstack' = <<>>
            /\ err' = err
       ELSE LET caller == pstack[Len(pstack) - 1]
                name == Files[caller.file].lines[caller.line_no].name
            IN /\ pstack' = Append(SubSeq(pstack, 1, Len(pstack) - 2),
                                    add_import(caller, name, Top.prefix))
               /\ UNCHANGED <<phase, err>>
    /\ UNCHANGED <<cvars, symtab, tracked, imports, gvars>>

(***************************************************************************)
(* Grammar.normalize.  A pass works on st = [tab, err]; an exception is    *)
(* st.err and nothing runs after it.                                       *)
(***************************************************************************)
Throw(st, e) == IF st.err = "" THEN [st EXCEPT !.err = e] ELSE st

\* get_prefixed of normalize: the hash prefix becomes the friendly one
Reprefixed(imp, name) == [name EXCEPT !.pre = imp[name.pre]]

\* whether get_prefixed raises for a name of sym or for its own name
UnknownPrefix(imp, sym) ==
    \E name \in {sym.name} \cup Children(sym) : name.pre \notin DOMAIN imp

\* sym.map(get_prefixed), for every symbol type, and sym.name = newname
Symbol_map(imp, sym) ==
    [sym EXCEPT !.name = Reprefixed(imp, @),
                !.list = [i \in DOMAIN @ |-> Reprefixed(imp, @[i])],
                !.values = [i \in DOMAIN @ |-> [j \in DOMAIN @[i] |-> Reprefixed(imp, @[i][j])]],
                !.args = [i \in DOMAIN @ |->
                            IF @[i].num THEN @[i]
                            ELSE [@[i] EXCEPT !.name = Reprefixed(imp, @)]],
                !.ref = IF sym.type = "Ref" THEN Reprefixed(imp, @) ELSE @]

\* the loop "rename prefixes to friendly names", from the i-th old name on
RECURSIVE RenamePrefixes(_, _, _)
RenamePrefixes(st, imp, old) ==
    IF old = <<>> \/ st.err # "" THEN st
    ELSE LET sym == Get(st.tab, Head(old))
         IN IF UnknownPrefix(imp, sym) THEN Throw(st, "ParseError")
            ELSE RenamePrefixes([st EXCEPT !.tab = Del(Put(@, Symbol_map(imp, sym)), Head(old))],
                                imp, Tail(old))

\* the deepest chain of normalize() calls that is followed: a longer one
\* visits a symbol twice and never returns
RecursionLimit(tab) == Len(tab)

\* a resolution of '+' that leaves the total as it was
Resolved_stale(self, i, w) == [self EXCEPT !.weights[i] = w]

\* self.weights[i] = w; self.total += self.weights[i]
Resolved(self, i, w) == [self EXCEPT !.weights[i] = w, !.total = @ + w]

RECURSIVE ChoiceSymbol_normalize(_, _, _, _)
\* ChoiceSymbol.normalize, from alternative i on
ChoiceSymbol_normalize(st, name, i, depth) ==
    IF st.err # "" \/ i > Len(Get(st.tab, name).values) THEN st
    ELSE LET self == Get(st.tab, name)
             value == self.values[i]
         IN IF self.weights[i] # Plus THEN ChoiceSymbol_normalize(st, name, i + 1, depth)
            ELSE IF Len(value) = 1 /\ ~Has(st.tab, value[1]) THEN Throw(st, "KeyError")
            ELSE IF Len(value) # 1 \/ Get(st.tab, value[1]).type # "Choice"
                 THEN Throw(st, "IntegrityError")
            ELSE LET child == Get(st.tab, value[1])
                     st1 == IF \E j \in DOMAIN child.weights : child.weights[j] = Plus
                            THEN IF depth >= RecursionLimit(st.tab)
                                 THEN Throw(st, "RecursionError")
                                 ELSE ChoiceSymbol_normalize(st, value[1], 1, depth + 1)
                            ELSE st
                     w == Get(st1.tab, value[1]).total
                     self2 == Resolved(Get(st1.tab, name), i, w)
                 IN IF st1.err # "" THEN st1
                    ELSE ChoiceSymbol_normalize([st1 EXCEPT !.tab = Put(@, self2)],
                                                name, i + 1, depth)

\* RepeatSampleSymbol.normalize
RepeatSampleSymbol_normalize(st, name) ==
    LET self == Get(st.tab, name)
        kids == self.list
        choices == {i \in DOMAIN kids : Get(st.tab, kids[i]).type = "Choice"}
        \* the loop stops at the first child it cannot accept
        bad == {i \in DOMAIN kids :
                  Get(st.tab, kids[i]).type \notin {"Choice", "Text", "TextChoice", "Bin"}}
        first == CHOOSE i \in bad : \A j \in bad : i <= j
    IN IF bad # {}
       THEN Throw(st, IF Has(st.tab, kids[first]) THEN "IntegrityError" ELSE "KeyError")
       ELSE IF Cardinality(choices) # 1 THEN Throw(st, "IntegrityError")
       ELSE [st EXCEPT !.tab =
                Put(@, [self EXCEPT !.sample_idx = (CHOOSE i \in choices : TRUE) - 1])]

RECURSIVE Symbol_normalize(_, _)
\* ConcatSymbol.normalize (RegexSymbol inherits it)
ConcatSymbol_normalize(st, name) ==
    LET self == Get(st.tab, name)
        child_name == self.list[1]
        child == Get(st.tab, child_name)
        renamed == [child EXCEPT !.name = self.name, !.line_no = self.line_no]
    IN IF Len(self.list) = 1 /\ HasBracket(self.list[1])
       THEN IF ~Has(st.tab, child_name) THEN Throw(st, "KeyError")
            ELSE Symbol_normalize([st EXCEPT !.tab = Del(Put(@, renamed), child_name)], name)
       ELSE st

\* sym.normalize(grmr) for the symbol stored under name
Symbol_normalize(st, name) ==
    IF st.err # "" THEN st
    ELSE CASE Get(st.tab, name).type = "Choice" -> ChoiceSymbol_normalize(st, name, 1, 1)
           [] Get(st.tab, name).type \in {"Concat", "Regex"} -> ConcatSymbol_normalize(st, name)
           [] Get(st.tab, name).type = "RepeatSample" -> RepeatSampleSymbol_normalize(st, name)
           [] OTHER -> st

\* the loop "normalize symbol tree" over list(self.symtab)
RECURSIVE NormalizeTree(_, _)
NormalizeTree(st, names) ==
    IF names = <<>> \/ st.err # "" THEN st
    ELSE IF ~Has(st.tab, Head(names)) THEN NormalizeTree(st, Tail(names))
    ELSE NormalizeTree(Symbol_normalize(st, Head(names)), Tail(names))

NamesOf(tab) == [i \in DOMAIN tab |-> tab[i].name]

\* Grammar.normalize
normalize(tab, imp) ==
    LET st1 == RenamePrefixes([tab |-> tab, err |-> ""], imp, NamesOf(tab))
    IN NormalizeTree(st1, NamesOf(st1.tab))

Normalize ==
    /\ phase = "normalize"
    /\ LET st == normalize(symtab, imports)
       IN /\ symtab' = st.tab
          /\ IF st.err # ""
             THEN Fail(st.err) /\ UNCHANGED tracked
             ELSE /\ tracked' = {Reprefixed(imports, t) : t \in tracked}
                  /\ phase' = "sanity"
                  /\ err' = err
    /\ UNCHANGED <<cvars, imports, pstack, gvars>>

(***************************************************************************)
(* Grammar.sanity_check.                                                   *)
(*                                                                         *)
(* all()/any() over sym.children() walk a Python set, whose order is not   *)
(* fixed: when a child is missing from the table, missing_first says       *)
(* whether the walk meets it before the child that would have ended it.    *)
(***************************************************************************)
Truthy(tab, name) == Get(tab, name).can_terminate

\* all(symtab[c].can_terminate for c in a list): "KeyError", "True" or "False"
RECURSIVE AllOfList(_, _)
AllOfList(tab, names) ==
    IF names = <<>> THEN "True"
    ELSE IF ~Has(tab, Head(names)) THEN "KeyError"
    ELSE IF ~Truthy(tab, Head(names)) THEN "False"
    ELSE AllOfList(tab, Tail(names))

\* all(symtab[c].can_terminate for c in a set)
AllOfSet(tab, names, missing_first) ==
    LET missing == {c \in names : ~Has(tab, c)}
        falsy == {c \in names \ missing : ~Truthy(tab, c)}
    IN IF missing # {} /\ (missing_first \/ falsy = {}) THEN "KeyError"
       ELSE IF falsy # {} THEN "False" ELSE "True"

\* any(symtab[c].can_terminate for c in a set)
AnyOfSet(tab, names, missing_first) ==
    LET missing == {c \in names : ~Has(tab, c)}
        truthy == {c \in names \ missing : Truthy(tab, c)}
    IN IF missing # {} /\ (missing_first \/ truthy = {}) THEN "KeyError"
       ELSE IF truthy # {} THEN "True" ELSE "False"

\* ChoiceSymbol.update_can_terminate, from alternative i on
RECURSIVE ChoiceSymbol_update(_, _, _)
ChoiceSymbol_update(st, name, i) ==
    LET self == Get(st.tab, name)
    IN IF st.err # "" THEN st
       ELSE IF i > Len(self.values)
       THEN IF \E j \in DOMAIN self.choices_terminate : self.choices_terminate[j]
            THEN [st EXCEPT !.tab = Put(@, [self EXCEPT !.can_terminate = TRUE]),
                            !.changed = TRUE]
            ELSE st
       ELSE LET all == AllOfList(st.tab, self.values[i])
            IN IF all = "KeyError" THEN Throw(st, "KeyError")
               ELSE IF all = "True"
               THEN ChoiceSymbol_update(
                        [st EXCEPT !.tab = Put(@, [self EXCEPT !.choices_terminate[i] = TRUE])],
                        name, i + 1)
               ELSE ChoiceSymbol_update(st, name, i + 1)

\* _Symbol.update_can_terminate
Symbol_update(st, name, missing_first) ==
    LET self == Get(st.tab, name)
        all == AllOfSet(st.tab, Children(self), missing_first)
    IN IF all = "KeyError" THEN Throw(st, "KeyError")
       ELSE IF all = "True"
       THEN [st EXCEPT !.tab = Put(@, [self EXCEPT !.can_terminate = TRUE]), !.changed = TRUE]
       ELSE st

\* sym.update_can_terminate(grmr) for the symbol stored under name
update_can_terminate(st, name, missing_first) ==
    IF Get(st.tab, name).type = "Choice" THEN ChoiceSymbol_update(st, name, 1)
    ELSE Symbol_update(st, name, missing_first)

\* one turn of "for sym in self.symtab.values()", from the i-th symbol on
RECURSIVE TerminatePass(_, _, _)
TerminatePass(st, i, missing_first) ==
    IF st.err # "" \/ i > Len(st.tab) THEN st
    ELSE IF st.tab[i].can_terminate THEN TerminatePass(st, i + 1, missing_first)
    ELSE TerminatePass(update_can_terminate(st, st.tab[i].name, missing_first),
                       i + 1, missing_first)

\* "while do_over": passes until one changes nothing
RECURSIVE BuildPaths(_, _)
BuildPaths(st, missing_first) ==
    LET st1 == TerminatePass([st EXCEPT !.changed = FALSE], 1, missing_first)
    IN IF st1.err # "" \/ ~st1.changed THEN st1 ELSE BuildPaths(st1, missing_first)

\* the search from root: [used, err], err being "KeyError" when a name the
\* search reaches is not in the table
RECURSIVE Reachable(_, _, _, _)
Reachable(tab, to_check, checked, used) ==
    IF to_check = {} THEN [used |-> used, err |-> ""]
    ELSE IF \E n \in to_check : ~Has(tab, n) THEN [used |-> used, err |-> "KeyError"]
    ELSE LET kids == UNION {Children(Get(tab, n)) : n \in to_check}
             done == checked \cup to_check
         IN Reachable(tab, kids \ done, done, used \cup kids)

Root == Named("", "root")
Builtins == {"rndflt", "rndint", "rndpow2"}

\* the last loop of sanity_check: the symbols it raises IntegrityError for
NoPathSymbols(tab, missing_first) ==
    {i \in DOMAIN tab :
        /\ ~tab[i].can_terminate
        /\ AnyOfSet(tab, Children(tab[i]), missing_first) # "True"}

\* syms_ignored: the names with "." or "[" in them
Ignored(tab) == {n \in Keys(tab) : HasDot(n) \/ HasBracket(n)}

\* a check that takes every registered callable for used
funcs_used_any(tab) == funcs

\* funcs_used: the built-ins and the fname of every FuncSymbol
funcs_used(tab) ==
    Builtins \cup {tab[i].fname : i \in {j \in DOMAIN tab : tab[j].type = "Func"}}

\* Grammar.sanity_check: [tab, err]
sanity_check(tab, fns, missing_first) ==
    LET st0 == [tab |-> tab, err |-> "", changed |-> FALSE]
        reach == Reachable(tab, {Root}, {}, {Root})
        syms_ignored == Ignored(tab)
        st1 == BuildPaths(st0, missing_first)
        nopath == NoPathSymbols(st1.tab, missing_first)
        first == CHOOSE i \in nopath : \A j \in nopath : i <= j
    IN IF \E i \in DOMAIN tab : tab[i].type = "Abstract" THEN Throw(st0, "IntegrityError")
       ELSE IF \E i \in DOMAIN tab : tab[i].type = "Func" /\ tab[i].fname \notin fns
            THEN Throw(st0, "IntegrityError")
       ELSE IF fns # funcs_used(tab) THEN Throw(st0, "IntegrityError")
       ELSE IF ~Has(tab, Root) THEN Throw(st0, "IntegrityError")
       ELSE IF reach.err # "" THEN Throw(st0, reach.err)
       ELSE IF (Keys(tab) \ reach.used) \ syms_ignored # {} THEN Throw(st0, "IntegrityError")
       ELSE IF st1.err # "" THEN st1
       ELSE IF nopath # {}
            THEN Throw(st1, IF AnyOfSet(st1.tab, Children(st1.tab[first]), missing_first)
                               = "KeyError"
                            THEN "KeyError" ELSE "IntegrityError")
       ELSE st1

SanityCheck ==
    /\ phase = "sanity"
    /\ \E missing_first \in BOOLEAN :
         LET st == sanity_check(symtab, funcs, missing_first)
         IN /\ symtab' = st.tab
            /\ IF st.err # "" THEN Fail(st.err)
               ELSE phase' = "ready" /\ err' = err
    /\ UNCHANGED <<cvars, tracked, imports, pstack, gvars>>

(***************************************************************************)
(* Grammar.generate.  A frame of gstack is one call of generate(): its     *)
(* _GenState (symstack, output, length), its local list `tracking`, and    *)
(* the FuncSymbol.generate that is waiting for an argument, if any.        *)
(* A stack item is a symbol name (k = "sym") or the tuple (k, name) with   *)
(* k "unwind" or "untrack".                                                *)
(***************************************************************************)
Item(k, name) == [k |-> k, name |-> name]
SymItems(names) == [i \in DOMAIN names |-> Item("sym", names[i])]

NoCall == [active |-> FALSE, fsym |-> NoName, args |-> <<>>, argi |-> 0]

\* _GenState.__init__, with symstack = [start]
GenState(start) ==
    [symstack |-> <<Item("sym", start)>>, output |-> <<>>, length |-> 0,
     tracking |-> <<>>, call |-> NoCall]

\* "".join(values), the characters only
Chars(values) == Flatten([i \in DOMAIN values |-> values[i].s])

\* Grammar.is_limit_exceeded
is_limit_exceeded(length) == limit # NoLimit /\ length >= limit

\* _GenState.backtrace: the names of the unwind markers, bottom to top
backtrace(g) ==
    LET marks == SelectSeq(g.symstack, LAMBDA it : it.k = "unwind")
    IN [i \in DOMAIN marks |-> marks[i].name]

\* an append that accepts every type
WrongType_never(output, value) == FALSE

\* whether _GenState.append raises GenerationError
WrongType(output, value) == output # <<>> /\ value.ty # output[1].ty

\* _GenState.append, when it does not raise
GenState_append(g, value) ==
    [g EXCEPT !.output = Append(@, value), !.length = @ + Len(value.s)]

\* a start index one value too late
TrackStart_late(output) == Len(output) + 1

\* the start index generate() records for a tracked symbol
TrackStart(output) == Len(output)

\* instance = "".join(gstate.output[tracked[1]:])
Instance(output, start) == Str(Chars(SubSeq(output, start + 1, Len(output))))

\* whether that join raises TypeError: a bytes item in the slice
JoinFails(output, start) ==
    \E i \in (start + 1)..Len(output) : output[i].ty # "str"

\* random.uniform(0, total) as far as the walk over integer weights can tell
Targets(total) == IF total > 0 THEN 0..(total - 1) ELSE {0}

\* the walk of _WeightedChoice.choice / sample: the position (from 1) at
\* which target goes below 0, or 0 when it never does (AssertionError)
RECURSIVE Walk(_, _, _)
Walk(weights, target, i) ==
    IF i > Len(weights) THEN 0
    ELSE IF target - weights[i] < 0 THEN i
    ELSE Walk(weights, target - weights[i], i + 1)

\* the positions of the alternatives ChoiceSymbol.generate may choose from
Candidates(sym, exceeded) ==
    IF exceeded /\ sym.can_terminate
    THEN SelectSeq([i \in DOMAIN sym.values |-> i], LAMBDA i : sym.choices_terminate[i])
    ELSE [i \in DOMAIN sym.values |-> i]

\* the total weight choice() draws below: the terminators' total is built
\* by append, the symbol's own is the stored self.total
CandidateTotal(sym, exceeded) ==
    IF exceeded /\ sym.can_terminate
    THEN SumSeq([k \in DOMAIN Candidates(sym, exceeded) |->
                    sym.weights[Candidates(sym, exceeded)[k]]])
    ELSE sym.total

\* ChoiceSymbol.generate: the position of the alternative chosen, 0 for
\* AssertionError
ChoiceSymbol_choose(sym, exceeded, target) ==
    LET cand == Candidates(sym, exceeded)
        k == Walk([j \in DOMAIN cand |-> sym.weights[cand[j]]], target, 1)
    IN IF k = 0 THEN 0 ELSE cand[k]

\* a Repeat that is chopped whenever the limit is exceeded
RepeatSymbol_reps_chop(sym, exceeded, n) == IF exceeded THEN -1 ELSE n

\* RepeatSymbol.generate: the repetitions for a draw n of
\* randint(min_, randint(min_, max_)); -1 when the output is chopped
RepeatSymbol_reps(sym, exceeded, n) ==
    IF exceeded THEN IF ~sym.can_terminate THEN -1 ELSE sym.min_
    ELSE n

\* reps * tuple(reversed(self))
RECURSIVE Copies(_, _)
Copies(reps, items) == IF reps <= 0 THEN <<>> ELSE items \o Copies(reps - 1, items)

RepeatSymbol_pushed(sym, reps) == Copies(reps, Reverse(sym.list))

\* a sample that leaves the drawn alternative in place
Remaining_all(weights, i) == [j \in DOMAIN weights |-> j]

\* del weights[i]; del values[i]: the positions that stay
Remaining(weights, i) == SelectSeq([j \in DOMAIN weights |-> j], LAMBDA j : j # i)

\* _WeightedChoice.sample(k): the lists of positions it can return.  pos are
\* the original positions of the alternatives still in weights
RECURSIVE sample(_, _, _, _)
sample(weights, pos, total, k) ==
    IF k = 0 \/ total = 0 THEN {<<>>}
    ELSE UNION {
           LET i == Walk(weights, target, 1)
               keep == Remaining(weights, i)
           IN IF i = 0 THEN {<<0>>}    \* AssertionError
              ELSE {<<pos[i]>> \o rest :
                      rest \in sample([j \in DOMAIN keep |-> weights[keep[j]]],
                                      [j \in DOMAIN keep |-> pos[keep[j]]],
                                      total - weights[i], k - 1)}
           : target \in Targets(total)}

\* a sample that deletes from the lists of the Choice itself
Sampled_inplace(choice, sel) ==
    [choice EXCEPT
        !.weights = SelectSeq([j \in DOMAIN @ |-> IF j \in SeqToSet(sel) THEN -2 ELSE @[j]],
                              LAMBDA w : w # -2),
        !.values = SelectSeq([j \in DOMAIN @ |-> IF j \in SeqToSet(sel) THEN <<NoName>> ELSE @[j]],
                             LAMBDA v : v # <<NoName>>)]

\* the Choice as sample(k) leaves it: the deletions are made in the copies
\* weights, values, total = self.weights[:], self.values[:], self.total
Sampled(choice, sel) == choice

\* RepeatSampleSymbol.generate: what it pushes for the selections drawn
RECURSIVE SamplePushed(_, _, _)
SamplePushed(sym, choice, sel) ==
    IF sel = <<>> THEN <<>>
    ELSE LET pre == SubSeq(sym.list, 1, sym.sample_idx)
             post == SubSeq(sym.list, sym.sample_idx + 2, Len(sym.list))
             last_sel == sel[Len(sel)]
         IN Reverse(pre \o choice.values[last_sel] \o post)
            \o SamplePushed(sym, choice, SubSeq(sel, 1, Len(sel) - 1))

\* str() of a number given to a function
Digits == <<"0", "1", "2", "3", "4", "5", "6", "7", "8", "9">>
StrOf(n) == <<Digits[n + 1]>>

\* the callable registered as f: its arguments joined by "_"
RECURSIVE JoinArgs(_)
JoinArgs(args) ==
    IF args = <<>> THEN <<>>
    ELSE IF Len(args) = 1 THEN Head(args)
    ELSE Head(args) \o <<"_">> \o JoinArgs(Tail(args))

CallFunc(fname, args) == Str(JoinArgs(args))

(***************************************************************************)
(* The loop of Grammar.generate, one turn per step.                        *)
(***************************************************************************)
G == gstack[Len(gstack)]
TopItem == G.symstack[Len(G.symstack)]
This == TopItem.name

Running == phase = "generate" /\ G.symstack # <<>>

\* a symbol is next, and the run is still within the depth followed
Dispatching ==
    /\ Running
    /\ TopItem.k = "sym"
    /\ Len(G.symstack) <= MaxStack
    /\ Len(G.output) < MaxOut

\* a dispatch that pushes the untrack marker and records nothing
Entered_unrecorded ==
    LET popped == SubSeq(G.symstack, 1, Len(G.symstack) - 1)
    IN IF This \in tracked
       THEN [G EXCEPT !.symstack = popped \o <<Item("untrack", This), Item("unwind", This)>>]
       ELSE [G EXCEPT !.symstack = Append(popped, Item("unwind", This))]

\* this = gstate.symstack.pop(), and what generate() pushes before it calls
\* symtab[this].generate(gstate)
Entered ==
    LET popped == SubSeq(G.symstack, 1, Len(G.symstack) - 1)
    IN IF This \in tracked
       THEN [G EXCEPT !.symstack = popped \o <<Item("untrack", This), Item("unwind", This)>>,
                      !.tracking = Append(@, [name |-> This, idx |-> TrackStart(G.output),
                                              off |-> G.length])]
       ELSE [G EXCEPT !.symstack = Append(popped, Item("unwind", This))]

\* RefSymbol.generate with no instance yet hands over to the referenced
\* symbol's generate; Target is the symbol whose generate() runs
ViaRef ==
    /\ Has(symtab, This)
    /\ Get(symtab, This).type = "Ref"
    /\ instances[Get(symtab, This).ref] = <<>>

Target == IF ViaRef THEN Get(symtab, Get(symtab, This).ref) ELSE Get(symtab, This)

Exceeded == is_limit_exceeded(G.length)

Push(g, names) == [g EXCEPT !.symstack = @ \o SymItems(names)]

Did(op) == [NoLast EXCEPT !.op = op, !.sym = This, !.tgt = Target.name,
                          !.via_ref = ViaRef, !.exceeded = Exceeded]

\* the turn ends with frame g in place of G
Continue(g, lst) ==
    /\ gstack' = [gstack EXCEPT ![Len(gstack)] = g]
    /\ last' = lst
    /\ UNCHANGED <<phase, err>>

\* ... or with exception e, raised with frame g
Abort(g, e, lst) ==
    /\ Fail(e)
    /\ gstack' = [gstack EXCEPT ![Len(gstack)] = g]
    /\ last' = lst

\* gstate.append(value) as the last thing a generate() does
AppendOrRaise(g, value, lst) ==
    IF WrongType(g.output, value)
    THEN Abort(g, "GenerationError", [lst EXCEPT !.val = value, !.tried = TRUE])
    ELSE Continue(GenState_append(g, value),
                  [lst EXCEPT !.val = value, !.tried = TRUE, !.appended = TRUE])

\* Grammar.generate up to its loop
GenStart ==
    /\ phase = "ready"
    /\ phase' = "generate"
    /\ gstack' = <<GenState(Root)>>
    /\ instances' = [t \in tracked |-> <<>>]
    /\ captured' = [t \in tracked |-> {}]
    /\ last' = [NoLast EXCEPT !.op = "start"]
    /\ UNCHANGED <<cvars, err, symtab, tracked, imports, pstack, result>>

\* ('unwind', name): continue
GenUnwind ==
    /\ Running
    /\ TopItem.k = "unwind"
    /\ Continue([G EXCEPT !.symstack = SubSeq(@, 1, Len(@) - 1)],
                [NoLast EXCEPT !.op = "unwind", !.sym = This])
    /\ UNCHANGED <<cvars, symtab, tracked, imports, pstack, instances, result, captured>>

\* the characters of values from offset off on
Since(values, off) == SubSeq(Chars(values), off + 1, Len(Chars(values)))

\* ('untrack', name): the output since the symbol was started becomes an
\* instance of it
GenUntrack ==
    /\ Running
    /\ TopItem.k = "untrack"
    /\ LET lst == [NoLast EXCEPT !.op = "untrack", !.sym = This, !.tgt = This]
           tr == G.tracking[Len(G.tracking)]
           popped == [G EXCEPT !.symstack = SubSeq(@, 1, Len(@) - 1)]
           untracked == [popped EXCEPT !.tracking = SubSeq(@, 1, Len(@) - 1)]
       IN IF G.tracking = <<>>
          THEN Abort(popped, "IndexError", lst) /\ UNCHANGED <<instances, captured>>
          ELSE IF tr.name # This
          THEN Abort(untracked, "AssertionError", lst) /\ UNCHANGED <<instances, captured>>
          ELSE IF JoinFails(G.output, tr.idx)
          THEN Abort(untracked, "TypeError", lst) /\ UNCHANGED <<instances, captured>>
          ELSE /\ Continue(untracked, [lst EXCEPT !.val = Instance(G.output, tr.idx)])
               /\ instances' = [instances EXCEPT ![This] = Append(@, Instance(G.output, tr.idx))]
               /\ captured' = [captured EXCEPT ![This] = @ \cup {Str(Since(G.output, tr.off))}]
    /\ UNCHANGED <<cvars, symtab, tracked, imports, pstack, result>>

\* TextSymbol, BinSymbol, _TextChoiceSymbol .generate; also a name that is
\* not in symtab (KeyError) and a symbol with only _Symbol.generate
GenAppend ==
    /\ Dispatching
    /\ Target.type \notin {"Concat", "Regex", "Choice", "Repeat", "RepeatSample", "Func", "Ref"}
    /\ IF ~Has(symtab, This) \/ Target = NoSym
       THEN Abort(Entered, "KeyError", Did("append"))
       ELSE IF Target.type \notin {"Text", "Bin", "TextChoice"}
       THEN Abort(Entered, "GenerationError", Did("append"))
       ELSE IF Target.type = "TextChoice" /\ Target.value.s = <<>>
       THEN Abort(Entered, "IndexError", Did("append"))
       ELSE \E c \in IF Target.type = "TextChoice" THEN DOMAIN Target.value.s ELSE {0} :
              AppendOrRaise(Entered,
                            IF Target.type = "TextChoice"
                            THEN Str(<<Target.value.s[c]>>) ELSE Target.value,
                            [Did("append") EXCEPT !.n = c])
    /\ UNCHANGED <<cvars, symtab, tracked, imports, pstack, instances, result, captured>>

\* RefSymbol.generate with an instance to repeat
GenRef ==
    /\ Dispatching
    /\ Target.type = "Ref"
    /\ \E i \in DOMAIN instances[Target.ref] :
         AppendOrRaise(Entered, instances[Target.ref][i], [Did("ref") EXCEPT !.n = i])
    /\ UNCHANGED <<cvars, symtab, tracked, imports, pstack, instances, result, captured>>

\* a Concat that pushes its children first to last
ConcatSymbol_pushed_fwd(sym) == sym.list

\* gstate.symstack.extend(reversed(self))
ConcatSymbol_pushed(sym) == Reverse(sym.list)

\* ConcatSymbol.generate (RegexSymbol inherits it)
GenConcat ==
    /\ Dispatching
    /\ Target.type \in {"Concat", "Regex"}
    /\ Continue(Push(Entered, ConcatSymbol_pushed(Target)),
                [Did("concat") EXCEPT !.pushed = ConcatSymbol_pushed(Target)])
    /\ UNCHANGED <<cvars, symtab, tracked, imports, pstack, instances, result, captured>>

\* ChoiceSymbol.generate
GenChoice ==
    /\ Dispatching
    /\ Target.type = "Choice"
    /\ \E target \in Targets(CandidateTotal(Target, Exceeded)) :
         LET alt == ChoiceSymbol_choose(Target, Exceeded, target)
         IN IF alt = 0
            THEN Abort(Entered, "GenerationError", Did("choice"))
            ELSE Continue(Push(Entered, Reverse(Target.values[alt])),
                          [Did("choice") EXCEPT !.n = alt,
                                                !.pushed = Reverse(Target.values[alt])])
    /\ UNCHANGED <<cvars, symtab, tracked, imports, pstack, instances, result, captured>>

\* RepeatSymbol.generate
GenRepeat ==
    /\ Dispatching
    /\ Target.type = "Repeat"
    /\ IF ~Exceeded /\ Target.min_ > Target.max_
       THEN Abort(Entered, "ValueError", Did("repeat"))
       ELSE \E n \in IF Exceeded THEN {Target.min_} ELSE Target.min_..Target.max_ :
              LET reps == RepeatSymbol_reps(Target, Exceeded, n)
              IN Continue(Push(Entered, RepeatSymbol_pushed(Target, reps)),
                          [Did("repeat") EXCEPT !.n = reps,
                                                !.pushed = RepeatSymbol_pushed(Target, reps)])
    /\ UNCHANGED <<cvars, symtab, tracked, imports, pstack, instances, result, captured>>

\* RepeatSampleSymbol.generate
GenRepeatSample ==
    /\ Dispatching
    /\ Target.type = "RepeatSample"
    /\ IF ~Exceeded /\ Target.min_ > Target.max_
       THEN Abort(Entered, "ValueError", Did("sample")) /\ symtab' = symtab
       ELSE \E n \in IF Exceeded THEN {Target.min_} ELSE Target.min_..Target.max_ :
              LET reps == RepeatSymbol_reps(Target, Exceeded, n)
                  choice == Get(symtab, Target.list[Target.sample_idx + 1])
              IN IF reps < 0
                 THEN Continue(Entered, [Did("sample") EXCEPT !.n = reps]) /\ symtab' = symtab
                 ELSE \E sel \in sample(choice.weights, [j \in DOMAIN choice.weights |-> j],
                                        choice.total, reps) :
                        /\ symtab' = Put(symtab, Sampled(choice, sel))
                        /\ IF \E j \in DOMAIN sel : sel[j] = 0
                           THEN Abort(Entered, "GenerationError",
                                      [Did("sample") EXCEPT !.n = reps])
                           ELSE Continue(Push(Entered, SamplePushed(Target, choice, sel)),
                                         [Did("sample") EXCEPT
                                             !.n = reps, !.alts = sel,
                                             !.pushed = SamplePushed(Target, choice, sel)])
    /\ UNCHANGED <<cvars, tracked, imports, pstack, instances, result, captured>>

\* the loop of FuncSymbol.generate over numeric arguments, from argument i
\* on: where it stops (a symbol argument, or past the end) and the args
RECURSIVE CollectNums(_, _, _)
CollectNums(fargs, i, acc) ==
    IF i <= Len(fargs) /\ fargs[i].num
    THEN CollectNums(fargs, i + 1, Append(acc, StrOf(fargs[i].v)))
    ELSE [i |-> i, args |-> acc]

\* a state for the argument that goes on counting from the caller's length
astate_counting(g, arg) == [GenState(arg) EXCEPT !.length = g.length]

\* astate = _GenState(gstate.grmr); astate.symstack = [arg]; the instances
\* are the caller's
astate(g, arg) == GenState(arg)

\* FuncSymbol.generate from argument i on, in frame g of the caller: either
\* a nested generate() for the next symbol argument or the call itself
FuncSymbol_generate(below, g, fsym, i, acc, lst) ==
    LET r == CollectNums(fsym.args, i, acc)
    IN IF r.i <= Len(fsym.args)
       THEN /\ gstack' = below \o
                   <<[g EXCEPT !.call = [active |-> TRUE, fsym |-> fsym.name,
                                         args |-> r.args, argi |-> r.i]],
                     astate(g, fsym.args[r.i].name)>>
            /\ last' = lst
            /\ UNCHANGED <<phase, err>>
       ELSE LET value == CallFunc(fsym.fname, r.args)
                done == [g EXCEPT !.call = NoCall]
            IN IF WrongType(g.output, value)
               THEN /\ Fail("GenerationError")
                    /\ gstack' = Append(below, done)
                    /\ last' = [lst EXCEPT !.val = value, !.tried = TRUE]
               ELSE /\ gstack' = Append(below, GenState_append(done, value))
                    /\ last' = [lst EXCEPT !.val = value, !.tried = TRUE, !.appended = TRUE]
                    /\ UNCHANGED <<phase, err>>

\* FuncSymbol.generate, up to its first symbol argument
GenFunc ==
    /\ Dispatching
    /\ Target.type = "Func"
    /\ Len(gstack) < MaxDepth
    /\ FuncSymbol_generate(SubSeq(gstack, 1, Len(gstack) - 1), Entered, Target, 1, <<>>,
                           Did("func"))
    /\ UNCHANGED <<cvars, symtab, tracked, imports, pstack, instances, result, captured>>

\* the value generate() returns: "".join(output), or b"".join(output)
Joined(output) ==
    [ty |-> IF output = <<>> THEN "str" ELSE output[1].ty, s |-> Chars(output)]

\* a nested generate() returns to FuncSymbol.generate, which goes on
GenReturn ==
    /\ phase = "generate"
    /\ Len(gstack) > 1
    /\ G.symstack = <<>>
    /\ LET caller == gstack[Len(gstack) - 1]
       IN FuncSymbol_generate(SubSeq(gstack, 1, Len(gstack) - 2), caller,
                              Get(symtab, caller.call.fsym), caller.call.argi + 1,
                              Append(caller.call.args, Joined(G.output).s),
                              [NoLast EXCEPT !.op = "return", !.sym = caller.call.fsym,
                                             !.tgt = caller.call.fsym,
                                             !.exceeded = is_limit_exceeded(caller.length)])
    /\ UNCHANGED <<cvars, symtab, tracked, imports, pstack, instances, result, captured>>

\* the outermost generate() returns
GenFinish ==
    /\ phase = "generate"
    /\ Len(gstack) = 1
    /\ G.symstack = <<>>
    /\ phase' = "done"
    /\ result' = Joined(G.output)
    /\ last' = [NoLast EXCEPT !.op = "finish", !.val = Joined(G.output)]
    /\ UNCHANGED <<cvars, err, symtab, tracked, imports, pstack, gstack, instances, captured>>

Generate ==
    \/ GenStart \/ GenUnwind \/ GenUntrack \/ GenAppend \/ GenRef \/ GenConcat
    \/ GenChoice \/ GenRepeat \/ GenRepeatSample \/ GenFunc \/ GenReturn \/ GenFinish

Next == ParseLine \/ ParseImport \/ ParseReturn \/ Normalize \/ SanityCheck \/ Generate

Spec == Init /\ [][Next]_vars

(***************************************************************************)
(* Properties.                                                             *)
(***************************************************************************)
\* Grammar() returned: the table is the one generate() works on
Constructed == phase \in {"ready", "generate", "done"} \/ (phase = "failed" /\ gstack # <<>>)

TopLevel(name) == ~HasDot(name) /\ ~HasBracket(name)

\* whether sym has an expansion that ends, given that the symbols of S have
\* one; chop says whether a Repeat that cannot terminate may push nothing
Ends(S, sym, chop) ==
    CASE sym.type \in {"Text", "Bin", "TextChoice"} -> TRUE
      [] sym.type \in {"Concat", "Regex"} -> SeqToSet(sym.list) \subseteq S
      [] sym.type = "Choice" -> \E i \in DOMAIN sym.values : SeqToSet(sym.values[i]) \subseteq S
      [] sym.type \in RepeatTypes ->
           \/ sym.min_ = 0
           \/ chop /\ ~sym.can_terminate
           \/ SeqToSet(sym.list) \subseteq S
      [] sym.type \in {"Func", "Ref"} -> Children(sym) \subseteq S
      [] OTHER -> FALSE

\* the names of tab with a finite derivation: the least set closed under Ends
RECURSIVE Derivable(_, _, _)
Derivable(tab, S, chop) ==
    LET T == S \cup {tab[i].name : i \in {j \in DOMAIN tab : Ends(S, tab[j], chop)}}
    IN IF T = S THEN S ELSE Derivable(tab, T, chop)

\* every alternative of every Choice has a finite derivation
AlternativesTerminate ==
    \A i \in DOMAIN symtab :
        symtab[i].type = "Choice" =>
            \A a \in DOMAIN symtab[i].values :
                SeqToSet(symtab[i].values[a]) \subseteq Derivable(symtab, {}, FALSE)

\* the symbols waiting on the expansion stacks
Pending ==
    UNION {{gstack[f].symstack[i].name :
               i \in {j \in DOMAIN gstack[f].symstack : gstack[f].symstack[j].k = "sym"}} :
           f \in DOMAIN gstack}

\* C1: with a numeric limit and every Choice alternative able to terminate,
\* generate() halts whatever is drawn; the stack can only become empty if
\* every symbol waiting on it has an expansion that ends (a Repeat that
\* cannot terminate ends by pushing nothing once the limit is exceeded), so
\* in every state of the run each waiting symbol has such an expansion.
C1_Halts ==
    (phase = "generate" /\ limit # NoLimit /\ AlternativesTerminate)
        => Pending \subseteq Derivable(symtab, {}, TRUE)

\* C2: a constructed grammar has a finite derivation for every symbol of the
\* table (otherwise construction raised IntegrityError).
C2_AllDerivable == Constructed => Keys(symtab) \subseteq Derivable(symtab, {}, FALSE)

\* C3: a Ref expanded when its symbol has completed expansions appends the
\* whole output of one of them: the characters output between the dispatch
\* of the symbol and its untrack marker; the instances kept are those outputs.
C3_RefRepeats ==
    /\ \A t \in DOMAIN instances : SeqToSet(instances[t]) \subseteq captured[t]
    /\ last.op = "ref" =>
          /\ last.tried
          /\ last.val \in captured[Get(symtab, last.sym).ref]

C3_Witness == last.op = "ref" /\ last.appended /\ Len(last.val.s) = 2

\* all values of every output buffer have one type
SameType ==
    \A f \in DOMAIN gstack :
        \A i, j \in DOMAIN gstack[f].output : gstack[f].output[i].ty = gstack[f].output[j].ty

\* C4: an append of a value whose type differs from the buffer's raises
\* GenerationError and leaves buffer and length as they were, any other
\* append adds the value; so every buffer holds values of one type.
C4_TypeChecked ==
    /\ [](SameType)
    /\ [][last'.tried =>
            LET before == gstack[Len(gstack')]
                after == gstack'[Len(gstack')]
            IN IF before.output # <<>> /\ last'.val.ty # before.output[1].ty
               THEN /\ phase' = "failed" /\ err' = "GenerationError"
                    /\ after.output = before.output
                    /\ after.length = before.length
               ELSE /\ phase' = "generate"
                    /\ after.output = Append(before.output, last'.val)
                    /\ after.length = before.length + Len(last'.val.s)]_vars

C4_Witness ==
    /\ phase = "failed" /\ err = "GenerationError"
    /\ last.tried /\ ~last.appended
    /\ G.output # <<>> /\ last.val.ty # G.output[1].ty

\* C5: one expansion of a RepeatSample pushes pairwise distinct alternatives
\* of its Choice child, each between the same pre and post children.
C5_SampleDistinct ==
    last.op = "sample" /\ phase # "failed" =>
        LET sym == Get(symtab, last.tgt)
            choice == Get(symtab, sym.list[sym.sample_idx + 1])
            pre == SubSeq(sym.list, 1, sym.sample_idx)
            post == SubSeq(sym.list, sym.sample_idx + 2, Len(sym.list))
            sel == last.alts
        IN /\ \A i, j \in DOMAIN sel : i # j => sel[i] # sel[j]
           /\ \A i \in DOMAIN sel : sel[i] \in DOMAIN choice.values
           /\ Reverse(last.pushed) =
                 Flatten([i \in DOMAIN sel |-> pre \o choice.values[sel[i]] \o post])

C5_Witness == last.op = "sample" /\ Len(last.alts) = 2 /\ Len(last.pushed) = 6

\* C6: a Choice expanded with the limit exceeded, if it can terminate, pushes
\* an alternative all of whose children can terminate, otherwise any of its
\* alternatives; exceeding the limit never aborts generation.
C6_ChoiceUnderLimit ==
    last.op = "choice" =>
        LET sym == Get(symtab, last.tgt)
        IN /\ last.exceeded => phase # "failed"
           /\ phase # "failed" =>
                 /\ \E i \in DOMAIN sym.values : last.pushed = Reverse(sym.values[i])
                 /\ (last.exceeded /\ sym.can_terminate) =>
                        \A i \in DOMAIN last.pushed :
                            Get(symtab, last.pushed[i]).can_terminate

\* n copies of body
RECURSIVE Times(_, _)
Times(n, body) == IF n = 0 THEN <<>> ELSE body \o Times(n - 1, body)

\* C7: a Repeat with min <= max pushes n whole copies of its body, in body
\* order, for some n in min..max, whatever the limit; except that it pushes
\* nothing when the limit is exceeded and it cannot terminate.
C7_RepeatCopies ==
    (last.op = "repeat" /\ Get(symtab, last.tgt).min_ <= Get(symtab, last.tgt).max_) =>
        LET sym == Get(symtab, last.tgt)
        IN /\ phase # "failed"
           /\ IF last.exceeded /\ ~sym.can_terminate
              THEN last.pushed = <<>>
              ELSE \E n \in sym.min_..sym.max_ : Reverse(last.pushed) = Times(n, sym.list)

C7_Witness ==
    /\ last.op = "repeat" /\ last.exceeded
    /\ Get(symtab, last.tgt).can_terminate
    /\ Get(symtab, last.tgt).min_ = 2 /\ Get(symtab, last.tgt).max_ = 2
    /\ Len(last.pushed) = 2

\* C8: in a constructed grammar every child name of every symbol is a key
\* of the table.
C8_ChildrenInTable ==
    Constructed => \A i \in DOMAIN symtab : Children(symtab[i]) \subseteq Keys(symtab)

\* the names reached from S along child edges
RECURSIVE ReachedFrom(_, _)
ReachedFrom(tab, S) ==
    LET T == S \cup UNION {Children(Get(tab, n)) : n \in S \cap Keys(tab)}
    IN IF T = S THEN S ELSE ReachedFrom(tab, T)

Rooted(tab) ==
    /\ Has(tab, Root)
    /\ \A n \in Keys(tab) : TopLevel(n) => n \in ReachedFrom(tab, {Root})

\* C9: a constructed grammar has root and every top-level named symbol is
\* reachable from it; a table without root, or with such a symbol out of
\* reach, makes construction fail with IntegrityError.
C9_Rooted ==
    /\ [](Constructed => Rooted(symtab))
    /\ [][(phase = "sanity" /\ ~Rooted(symtab))
             => (phase' = "failed" /\ err' = "IntegrityError")]_vars

\* C10: in a constructed grammar every Choice has numeric weights only and
\* its total is their sum.
C10_Totals ==
    Constructed =>
        \A i \in DOMAIN symtab :
            symtab[i].type = "Choice" =>
                /\ \A a \in DOMAIN symtab[i].weights : symtab[i].weights[a] >= 0
                /\ symtab[i].total = SumSeq(symtab[i].weights)

C10_Witness ==
    /\ phase = "ready"
    /\ \E i \in DOMAIN symtab :
          /\ symtab[i].type = "Choice"
          /\ symtab[i].weights = <<1, 5>>
          /\ \E j \in DOMAIN symtab : symtab[j].weights = <<3, 2>>

\* the fname of the Func symbols of the table
FuncNames == {symtab[i].fname : i \in {j \in DOMAIN symtab : symtab[j].type = "Func"}}

\* C11: a constructed grammar has as registered callables exactly the names
\* its Func symbols use and the three built-ins; sanity_check, given a table
\* for which the two sets differ, raises IntegrityError.
C11_FuncsMatch ==
    /\ [](Constructed => funcs = FuncNames \cup {"rndint", "rndflt", "rndpow2"})
    /\ [][(phase = "sanity" /\ funcs # FuncNames \cup {"rndint", "rndflt", "rndpow2"})
             => (phase' = "failed" /\ err' = "IntegrityError")]_vars

C11_Witness ==
    /\ phase = "failed" /\ err = "IntegrityError" /\ pstack = <<>>
    /\ "g" \in funcs \ FuncNames
    /\ ~\E i \in DOMAIN symtab : symtab[i].type = "Abstract"

\* the prefixes the references of a definition use
RECURSIVE PrefixesIn(_)
PrefixesIn(defn) ==
    IF defn = <<>> THEN {}
    ELSE LET tok == Head(defn)
         IN (IF tok.t \in {"sym", "ref"} /\ tok.pre # "" THEN {tok.pre} ELSE {})
            \cup UNION {PrefixesIn(tok.args[i]) : i \in DOMAIN tok.args}
            \cup PrefixesIn(Tail(defn))

\* the import prefixes the first n lines of file f declare
DeclaredIn(f, n) ==
    {Files[f].lines[i].name : i \in {j \in 1..n : Files[f].lines[j].type = "import"}}

\* the prefixes the references of file f use
ReferencedIn(f) == UNION {PrefixesIn(Files[f].lines[i].def) : i \in DOMAIN Files[f].lines}

AllUsed(f) == DeclaredIn(f, Len(Files[f].lines)) \subseteq ReferencedIn(f)

\* C12: in a constructed grammar every parsed file uses, in a reference of
\* its own, each import prefix it declares; the end of a file that leaves a
\* declared prefix unused raises IntegrityError, and a line with a reference
\* whose prefix no earlier line of the file declared raises ParseError.
C12_ImportsUsed ==
    /\ [](Constructed =>
             \A f \in DOMAIN Files : GrammarHash(Files, f) \in DOMAIN imports => AllUsed(f))
    /\ [][(phase = "parse" /\ Top.line_no = Len(Files[Top.file].lines) /\ ~AllUsed(Top.file))
             => (phase' = "failed" /\ err' = "IntegrityError")]_vars
    /\ [][(/\ phase = "parse" /\ Top.line_no < Len(Files[Top.file].lines)
           /\ ~(PrefixesIn(Line.def) \subseteq DeclaredIn(Top.file, Top.line_no)))
             => (phase' = "failed" /\ err' = "ParseError")]_vars

C12_Witness ==
    /\ phase = "failed" /\ err = "IntegrityError" /\ pstack # <<>>
    /\ Top.line_no = Len(Files[Top.file].lines)
    /\ "L" \in DeclaredIn(Top.file, Top.line_no) \ ReferencedIn(Top.file)

\* the file that file f imports under prefix pre
ImportedFile(f, pre) ==
    CHOOSE g \in DOMAIN Files :
        \E i \in DOMAIN Files[f].lines :
            /\ Files[f].lines[i].type = "import"
            /\ Files[f].lines[i].name = pre
            /\ Files[g].path = Files[f].lines[i].path

\* the name a reference pre.id of file f has in the constructed table
FinalName(f, pre, id) ==
    Named(imports[GrammarHash(Files, IF pre = "" THEN f ELSE ImportedFile(f, pre))], id)

\* a function argument that is a number and no symbol
Literal(arg) ==
    Len(arg) = 1 /\ arg[1].t = "sym" /\ arg[1].pre = "" /\ arg[1].id \in DOMAIN NumVal

\* the symbols a definition of file f refers to by name
RECURSIVE NamesIn(_, _)
NamesIn(defn, f) ==
    IF defn = <<>> THEN {}
    ELSE LET tok == Head(defn)
         IN (IF tok.t \in {"sym", "ref"} THEN {FinalName(f, tok.pre, tok.id)} ELSE {})
            \cup UNION {NamesIn(tok.args[i], f) :
                          i \in {j \in DOMAIN tok.args : ~Literal(tok.args[j])}}
            \cup NamesIn(Tail(defn), f)

\* C13: in a constructed grammar every symbol a parsed file refers to by
\* name (as a child, in a Func argument or as the target of a Ref) has a
\* definition in the table, and no placeholder is left in the table.
C13_NoUndefined ==
    Constructed =>
        /\ \A i \in DOMAIN symtab : symtab[i].type # "Abstract"
        /\ \A f \in DOMAIN Files :
              GrammarHash(Files, f) \in DOMAIN imports =>
                 \A i \in DOMAIN Files[f].lines :
                    \A n \in NamesIn(Files[f].lines[i].def, f) :
                       Has(symtab, n) /\ Get(symtab, n).type # "Abstract"

\* C14: sample(k) on a Choice with fewer than k alternatives of non-zero
\* weight ends in an error, which RepeatSample raises as GenerationError;
\* with k at most that number it returns exactly k alternatives.
C14_SampleCount ==
    (/\ last.op = "sample" /\ last.n >= 0
     /\ Get(symtab, last.tgt).min_ <= Get(symtab, last.tgt).max_) =>
        LET sym == Get(symtab, last.tgt)
            choice == Get(symtab, sym.list[sym.sample_idx + 1])
            nonzero == Cardinality({i \in DOMAIN choice.weights : choice.weights[i] > 0})
        IN IF last.n > nonzero
           THEN phase = "failed" /\ err = "GenerationError"
           ELSE phase # "failed" /\ Len(last.alts) = last.n

\* the Choices that the Choices of S take a weight from with '+'
PlusNext(tab, S) ==
    {d \in Keys(tab) :
        /\ Get(tab, d).type = "Choice"
        /\ \E c \in S : \E i \in DOMAIN Get(tab, c).weights :
               /\ Get(tab, c).weights[i] = Plus
               /\ Get(tab, c).values[i] = <<d>>}

RECURSIVE PlusReach(_, _)
PlusReach(tab, S) ==
    LET T == S \cup PlusNext(tab, S)
    IN IF T = S THEN S ELSE PlusReach(tab, T)

\* some Choice takes a weight from itself through a chain of '+'
PlusCycle(tab) ==
    \E c \in Keys(tab) :
        Get(tab, c).type = "Choice" /\ c \in PlusReach(tab, PlusNext(tab, {c}))

\* C15: normalization of a table in which Choices refer to each other with
\* '+' in a cycle, or a Choice to itself, finishes with IntegrityError.
C15_PlusTerminates ==
    [][(phase = "normalize" /\ PlusCycle(symtab))
          => (phase' = "failed" /\ err' = "IntegrityError")]_vars

\* C16: what generate() appends is decided by the grammar and the random
\* draws alone: for a character class, the character appended for a draw is
\* the same whichever order the process iterates its sets in.
C16_Deterministic ==
    (last.op = "append" /\ last.appended /\ Get(symtab, last.tgt).type = "TextChoice") =>
        \A seed \in HashSeeds :
            last.val.s = <<SetOrderOf(seed, SeqToSet(Get(symtab, last.tgt).value.s))[last.n]>>

C18_FreshCaptured ==
    (last.op = "unwind" /\ Get(symtab, last.sym).type = "Ref") =>
        instances[Get(symtab, last.sym).ref] # <<>>

\* C19: in a constructed grammar the termination flag of alternative i of
\* a Choice is set exactly when every child of alternative i can terminate.
C19_AlternativeFlags ==
    Constructed =>
        \A k \in DOMAIN symtab :
            symtab[k].type = "Choice" =>
                \A i \in DOMAIN symtab[k].values :
                    symtab[k].choices_terminate[i]
                        <=> \A c \in SeqToSet(symtab[k].values[i]) :
                               Has(symtab, c) /\ Get(symtab, c).can_terminate

\* s is the beginning of t
Prefix(s, t) == Len(s) <= Len(t) /\ s = SubSeq(t, 1, Len(s))

\* whether the expansion of a symbol involves no draw: a text, or a
\* concatenation of such symbols (followed to depth fuel)
RECURSIVE Fixed(_, _)
Fixed(name, fuel) ==
    LET sym == Get(symtab, name)
    IN CASE sym.type \in {"Text", "Bin"} -> TRUE
         [] sym.type \in {"Concat", "Regex"} ->
              fuel > 0 /\ \A i \in DOMAIN sym.list : Fixed(sym.list[i], fuel - 1)
         [] OTHER -> FALSE

\* the recursive left-to-right expansion of such a symbol
RECURSIVE Expansion(_)
Expansion(name) ==
    LET sym == Get(symtab, name)
    IN IF sym.type \in {"Text", "Bin"} THEN sym.value.s
       ELSE Flatten([i \in DOMAIN sym.list |-> Expansion(sym.list[i])])

\* the stack holds the children of the Concat just expanded, the first on
\* top, above the unwind marker of the symbol dispatched
ChildrenOnTop ==
    last.op = "concat" =>
        LET kids == Get(symtab, last.tgt).list
            n == Len(G.symstack)
        IN /\ n > Len(kids)
           /\ \A i \in DOMAIN kids : G.symstack[n + 1 - i] = Item("sym", kids[i])
           /\ G.symstack[n - Len(kids)] = Item("unwind", last.sym)

\* a step takes the top of the running stack and changes nothing below it,
\* leaves the stacks of the suspended calls alone, and adds to an output
\* buffer at its end only
StackDiscipline ==
    phase = "generate" =>
        \A f \in DOMAIN gstack \cap DOMAIN gstack' :
            /\ Prefix(gstack[f].output, gstack'[f].output)
            /\ IF f < Len(gstack)
               THEN gstack'[f].symstack = gstack[f].symstack
               ELSE Prefix(SubSeq(gstack[f].symstack, 1, Len(gstack[f].symstack) - 1),
                           gstack'[f].symstack)

\* C20: the expansion with the explicit stack is the recursive left-to-right
\* one: a Concat leaves its children on the stack with the first on top, no
\* step touches what waits below the symbol being expanded, output is only
\* added at the end, and a grammar of concatenations and texts generates the
\* texts in the order of the recursive expansion.
C20_LeftToRight ==
    /\ [](ChildrenOnTop)
    /\ []((phase = "done" /\ Fixed(Root, Len(symtab))) => result.s = Expansion(Root))
    /\ [][StackDiscipline]_vars

C20_Witness ==
    /\ phase = "done" /\ Fixed(Root, Len(symtab))
    /\ result.s = <<"a", "b", "c", "d", "e">>

\* C21: when a GenerationError is raised, the backtrace of the generator
\* state it carries is the chain of symbols being expanded: it starts at the
\* start symbol, ends at the symbol dispatched, and each of its symbols is a
\* child of the one before it.
C21_Backtrace ==
    (phase = "failed" /\ err = "GenerationError" /\ gstack # <<>>) =>
        LET bt == backtrace(G)
        IN /\ bt # <<>>
           /\ bt[1] = Root
           /\ bt[Len(bt)] = last.sym
           /\ \A i \in 1..(Len(bt) - 1) : bt[i + 1] \in Children(Get(symtab, bt[i]))

\* a Concat with exactly one child, an implicit one
Wrapper(sym) ==
    sym.type \in {"Concat", "Regex"} /\ Len(sym.list) = 1 /\ HasBracket(sym.list[1])

\* the symbol a wrapper stands for: its child, or what the child stands for
RECURSIVE Wrapped(_, _, _)
Wrapped(tab, sym, fuel) ==
    IF Wrapper(sym) /\ Has(tab, sym.list[1]) /\ fuel > 0
    THEN Wrapped(tab, Get(tab, sym.list[1]), fuel - 1)
    ELSE sym

\* a definition with "." in a regular expression
UsesDot(defn) ==
    \E i \in DOMAIN defn :
        defn[i].t = "regex" /\ \E j \in DOMAIN defn[i].args[1] : defn[i].args[1][j].t = "dot"

\* the table after normalization: no wrapper is left, and every implicit
\* name a symbol refers to is a key
Flattened ==
    phase \in {"sanity", "ready", "generate", "done"} =>
        \A k \in DOMAIN symtab :
            /\ ~Wrapper(symtab[k])
            /\ \A c \in Children(symtab[k]) : HasBracket(c) => Has(symtab, c)

\* normalization puts what a wrapper stands for under the wrapper's name and
\* line, and removes the key of the child
Promotes ==
    (phase = "normalize" /\ phase' = "sanity") =>
        \A k \in DOMAIN symtab :
            Wrapper(symtab[k]) =>
                LET outer == Reprefixed(imports, symtab[k].name)
                    inner == Wrapped(symtab, symtab[k], Len(symtab))
                IN /\ ~Has(symtab', Reprefixed(imports, symtab[k].list[1]))
                   /\ Has(symtab', outer)
                   /\ Get(symtab', outer).line_no = symtab[k].line_no
                   /\ Get(symtab', outer).type = inner.type
                   /\ Get(symtab', outer).value = inner.value
                   /\ Len(Get(symtab', outer).list) = Len(inner.list)

\* C22: flattening replaces a wrapper by its child under the wrapper's name
\* and line and removes the child's key; a grammar whose regular expressions
\* share the symbol of "." is built, and after normalization every implicit
\* name referred to is a key and no Concat with one implicit child is left.
C22_Flattening ==
    /\ [](Flattened)
    /\ []((phase = "failed" /\ pstack # <<>> /\ Top.line_no < Len(Files[Top.file].lines)
           /\ Line.type # "import" /\ UsesDot(Line.def)) => err # "IndexError")
    /\ [][Promotes]_vars

\* the names of the untrack markers of a stack, bottom to top
Untracks(symstack) ==
    LET marks == SelectSeq(symstack, LAMBDA it : it.k = "untrack")
    IN [i \in DOMAIN marks |-> marks[i].name]

\* C23: in every generate() call in progress the untrack markers on the stack
\* are, in the same order, the entries of its tracking list, each recorded
\* where the output then ended, and neither "Tracking mismatch" assertion
\* nor the pop of an empty tracking list ever fails.
C23_TrackingMatches ==
    /\ \A f \in DOMAIN gstack :
          /\ Untracks(gstack[f].symstack)
                = [i \in DOMAIN gstack[f].tracking |-> gstack[f].tracking[i].name]
          /\ \A i \in DOMAIN gstack[f].tracking :
                gstack[f].tracking[i].idx <= Len(gstack[f].output)
    /\ err # "AssertionError"
    /\ (last.op = "untrack") => err # "IndexError"

\* a tracked symbol is being expanded inside an expansion of itself, after
\* an instance has been captured
C23_Witness ==
    /\ phase = "generate"
    /\ Len(G.tracking) >= 2
    /\ G.tracking[1].name = G.tracking[2].name
    /\ \E t \in tracked : instances[t] # <<>>

\* a step of a nested generate() leaves the calls around it as they are
\* and only adds to the instances
ArgumentApart ==
    (phase = "generate" /\ Len(gstack) > 1 /\ Len(gstack') >= Len(gstack)) =>
        /\ \A f \in 1..(Len(gstack) - 1) : gstack'[f] = gstack[f]
        /\ \A t \in DOMAIN instances :
              t \in DOMAIN instances' /\ Prefix(instances[t], instances'[t])

\* the state an argument starts on holds the argument only, and the caller
\* keeps its output, its length and its stack up to the marker of the Func
ArgumentFresh ==
    (phase = "generate" /\ Len(gstack') = Len(gstack) + 1) =>
        LET arg == gstack'[Len(gstack')]
            caller == gstack'[Len(gstack)]
        IN /\ arg.length = 0 /\ arg.output = <<>> /\ arg.tracking = <<>>
           /\ Len(arg.symstack) = 1 /\ arg.symstack[1].k = "sym"
           /\ caller.output = G.output /\ caller.length = G.length
           /\ instances' = instances

\* the limit test of a dispatch looks at the length of its own call
OwnLength ==
    (phase = "generate" /\ G.symstack # <<>> /\ TopItem.k = "sym" /\ last'.op # "return") =>
        last'.exceeded = (limit # NoLimit /\ SumSeq([i \in DOMAIN G.output |-> Len(G.output[i].s)]) >= limit)

\* C24: the generation of a Func argument runs on a state of its own, which
\* starts empty with length 0; its steps change nothing of the calls around
\* it, its limit test counts its own output only, and it shares the
\* instances, to which it only adds.
C24_ArgumentState == [][ArgumentApart /\ ArgumentFresh /\ OwnLength]_vars

\* inside an argument the limit is not exceeded although the caller is past
\* it, and the argument has added an instance
C24_Witness ==
    /\ phase = "generate" /\ Len(gstack) = 2
    /\ limit # NoLimit /\ gstack[1].length >= limit
    /\ last.op = "untrack" /\ G.length < limit
    /\ instances[last.sym] # <<>>

\* the distinct texts among the files
Contents == {Files[f].lines : f \in DOMAIN Files}

\* file f has a definition of the symbol id
Defines(f, id) ==
    \E i \in DOMAIN Files[f].lines :
        Files[f].lines[i].type \in {"choice", "concat"} /\ Files[f].lines[i].name = id

\* the friendly prefixes under which the table has a symbol id
PrefixesOf(id) ==
    {p \in {imports[h] : h \in DOMAIN imports} : Has(symtab, Named(p, id))}

\* C25: parsing ends whatever the files import: the hash of a file is
\* recorded before its body is parsed, no text is parsed while it is being
\* parsed (so the calls in progress are at most as many as the distinct
\* texts), and after normalization a symbol is under one friendly prefix
\* only, unless several texts define it.
C25_ParsedOnce ==
    /\ \A i \in DOMAIN pstack : pstack[i].prefix \in DOMAIN imports
    /\ \A i, j \in DOMAIN pstack :
          i # j => Files[pstack[i].file].lines # Files[pstack[j].file].lines
    /\ Len(pstack) <= Cardinality(Contents)
    /\ phase \in {"sanity", "ready", "generate", "done"} =>
          \A f \in DOMAIN Files : \A i \in DOMAIN Files[f].lines :
              Cardinality(PrefixesOf(Files[f].lines[i].name))
                <= Cardinality({Files[g].lines : g \in {g \in DOMAIN Files :
                                                          Defines(g, Files[f].lines[i].name)}})

====
